---------------------------- MODULE Spec2Model ----------------------------
(***************************************************************************)
(* Perfusion Tools: the calculators of src/main.js, src/dist/main.js and   *)
(* the unnamed snapshots, as state machines over the form fields and the   *)
(* displayed results.                                                      *)
(*                                                                         *)
(* Numbers.  The code computes in IEEE doubles on decimal form input.      *)
(* The model computes the same expressions exactly, on scaled integers:    *)
(*   heights in tenths of a cm (h10), weights in tenths of a kg (w10),     *)
(*   body weights inside the heparin plan in 1e-4 kg,                      *)
(*   temperatures in tenths of a degree (t10),                             *)
(*   DO2i values, thresholds and flows as exact rationals [n, d].          *)
(* A form field holds "" (empty), a decimal numeral, or other text; it is  *)
(* a record [kind, n] with n the numeral's scaled value.                   *)
(***************************************************************************)
EXTENDS Integers, Sequences, FiniteSets, TLC

VARIABLES hep, gdp, trow, do2, tq, call, priming

vars == <<hep, gdp, trow, do2, tq, call, priming>>

(***************************************************************************)
(* Bounds of the model.                                                    *)
(***************************************************************************)
\* every critical input value c is explored as c-Near .. c+Near (scaled units)
Near == 1
\* temperature readings are explored on whole degrees TempMinC .. TempMaxC
\* and around the anchors and band edges
TempMinC == 18
TempMaxC == 41
\* time texts are explored up to MaxTimeLen characters
MaxTimeLen == 5

(***************************************************************************)
(* Form fields and parseFloat.                                             *)
(***************************************************************************)
EmptyField == [kind |-> "empty", n |-> 0]
TextField == [kind |-> "text", n |-> 0]
NumField(v) == [kind |-> "num", n |-> v]

\* parseFloat(field.value): NaN for "" and for non-numeric text
ParseFloat(f) == IF f.kind = "num" THEN [nan |-> FALSE, v |-> f.n]
                 ELSE [nan |-> TRUE, v |-> 0]

\* x || 0 on a parseFloat result: NaN and 0 both give 0
OrZero(p) == IF p.nan THEN 0 ELSE p.v

Around(S) == UNION {(c - Near)..(c + Near) : c \in S}

\* Math.round(n / d) for d > 0: round half up
RoundDiv(n, d) == (n \div d) + (IF 2 * (n % d) >= d THEN 1 ELSE 0)

Max2(a, b) == IF a >= b THEN a ELSE b
Min2(a, b) == IF a <= b THEN a ELSE b

\* clamp(n, min, max) = Math.min(Math.max(n, min), max)
clamp(n, lo, hi) == Min2(Max2(n, lo), hi)

(***************************************************************************)
(* Exact non-negative rationals [n, d], d > 0, kept in lowest terms: the   *)
(* values the code's double expressions denote.                            *)
(***************************************************************************)
RECURSIVE Gcd(_, _)
Gcd(a, b) == IF b = 0 THEN a ELSE Gcd(b, a % b)

Frac(n, d) == LET g == Gcd(n, d) IN [n |-> n \div g, d |-> d \div g]
FracInt(k) == [n |-> k, d |-> 1]

\* a/b < c/d for a, c >= 0 and b, d > 0, by integer parts and remainders, so
\* that no cross product is formed
RECURSIVE LtPos(_, _, _, _)
LtPos(a, b, c, d) ==
  LET qa == a \div b
      qc == c \div d
      ra == a % b
      rc == c % d
  IN IF qa # qc THEN qa < qc
     ELSE IF rc = 0 THEN FALSE
     ELSE IF ra = 0 THEN TRUE
     ELSE LtPos(d, rc, b, ra)

FracLt(x, y) == LtPos(x.n, x.d, y.n, y.d)
FracLe(x, y) == ~FracLt(y, x)
FracMax(x, y) == IF FracLt(x, y) THEN y ELSE x
FracMin(x, y) == IF FracLt(y, x) THEN y ELSE x
FracIsZero(x) == x.n = 0

\* x * y and x / y, cross-reduced before multiplying
FracMul(x, y) ==
  LET g1 == Gcd(x.n, y.d)
      g2 == Gcd(y.n, x.d)
  IN IF x.n = 0 \/ y.n = 0 THEN FracInt(0)
     ELSE [n |-> (x.n \div g1) * (y.n \div g2), d |-> (x.d \div g2) * (y.d \div g1)]

\* what a division by zero gives: 0 / 0 is NaN, x / 0 is +-Infinity; both
\* are written with denominator 0
NaN == [n |-> 0, d |-> 0]
Infinity(sign) == [n |-> sign, d |-> 0]
IsFinite(x) == x.d # 0

FracDiv(x, y) ==
  IF y.n = 0 THEN (IF x.n = 0 THEN NaN ELSE Infinity(IF x.n < 0 THEN -1 ELSE 1))
  ELSE IF y.n < 0 THEN FracMul(x, [n |-> -y.d, d |-> -y.n])
  ELSE FracMul(x, [n |-> y.d, d |-> y.n])

(***************************************************************************)
(* Heparin management (src/main.js).                                       *)
(***************************************************************************)
NoValue == [ok |-> FALSE, v |-> 0]
Value(x) == [ok |-> TRUE, v |-> x]

\* computeDevineIbw in 1e-4 kg; null when height is not > 0 or sex unknown
\* 0.91 * (h - 152.4) kg = 910 * (h10 - 1524) 1e-4 kg
computeDevineIbw(h10, sex) ==
  IF ~(h10 > 0) THEN NoValue
  ELSE IF sex = "male" THEN Value(500000 + 910 * (h10 - 1524))
  ELSE IF sex = "female" THEN Value(455000 + 910 * (h10 - 1524))
  ELSE NoValue

\* bmi < k, with bmi = weightKg / (heightCm / 100)^2 = w10 * 10^5 / h10^2
BmiBelow(h10, w10, k) == w10 * 100000 < k * h10 * h10

\* a boundary slip: bmi <= 30 and bmi <= 40 where the code has < 30 and < 40
BmiBranchInclusive(h10, w10) ==
  IF w10 * 100000 <= 30 * h10 * h10 THEN "tbw"
  ELSE IF w10 * 100000 <= 40 * h10 * h10 THEN "abw04"
  ELSE "abw03"

\* the branch of the auto strategy: if (bmi < 30) .. else if (bmi < 40) .. else
BmiBranch(h10, w10) ==
  IF BmiBelow(h10, w10, 30) THEN "tbw"
  ELSE IF BmiBelow(h10, w10, 40) THEN "abw04"
  ELSE "abw03"

\* computeDevineIbw(heightCm, sex) || weightKg : null and 0 both fall back
IbwOrWeight(h10, w10, sex) ==
  LET d == computeDevineIbw(h10, sex)
  IN IF d.ok /\ d.v # 0 THEN d.v ELSE w10 * 1000

NoPlan == [ok |-> FALSE]

\* the high-dose flag raised from 40000 U on
HighDoseFrom40000(initialBolus) == initialBolus >= 40000

\* isHighDose = initialBolus > 40000
HighDose(initialBolus) == initialBolus > 40000

computeHeparinPlan(h10, w10, sex, doseUnit, weightStrategy, resistance) ==
  IF ~(h10 > 0) \/ ~(w10 > 0) THEN NoPlan
  ELSE
    LET tbw == w10 * 1000
        ibw == IbwOrWeight(h10, w10, sex)
        excess == tbw - ibw
        abwStandard == ibw + (4 * excess) \div 10
        abwSuperObese == ibw + (3 * excess) \div 10
        branch == BmiBranch(h10, w10)
        dosingWeight ==
          IF weightStrategy = "auto"
          THEN (IF branch = "tbw" THEN tbw
                ELSE IF branch = "abw04" THEN abwStandard ELSE abwSuperObese)
          ELSE IF weightStrategy = "tbw" THEN tbw
          ELSE IF weightStrategy = "ibw" THEN ibw
          ELSE IF weightStrategy = "abw"
          THEN (IF ~BmiBelow(h10, w10, 40) THEN abwSuperObese ELSE abwStandard)
          ELSE tbw
        strategyLabel ==
          IF weightStrategy = "auto"
          THEN (IF branch = "tbw" THEN "TBW (Standard)"
                ELSE IF branch = "abw04" THEN "ABW (0.4 correction)"
                ELSE "ABW (0.3 super-obese)")
          ELSE IF weightStrategy = "tbw" THEN "TBW (Manual)"
          ELSE IF weightStrategy = "ibw" THEN "IBW (Manual)"
          ELSE IF weightStrategy = "abw" THEN "ABW (Manual)"
          ELSE "TBW (Standard)"
        alertLevel ==
          IF weightStrategy = "auto" /\ branch = "abw04" THEN "medium"
          ELSE IF weightStrategy = "auto" /\ branch = "abw03" THEN "high"
          ELSE "low"
        initialBolus == RoundDiv(dosingWeight * doseUnit, 10000)
        tbwBolus == RoundDiv(tbw * doseUnit, 10000)
    IN [ok |-> TRUE,
        bmiBranch |-> branch,
        ibw |-> ibw,
        abw |-> abwStandard,
        abwSuper |-> abwSuperObese,
        tbw |-> tbw,
        dosingWeight |-> dosingWeight,
        strategyLabel |-> strategyLabel,
        alertLevel |-> alertLevel,
        initialBolus |-> initialBolus,
        tbwBolus |-> tbwBolus,
        difference |-> tbwBolus - initialBolus,
        isHighDose |-> HighDose(initialBolus),
        additionalBolus |->
          RoundDiv(dosingWeight * (IF resistance THEN 100 ELSE 50), 10000)]

\* height > 50 && height < 250
HeightValid(h) == ~h.nan /\ h.v > 500 /\ h.v < 2500

\* weight > 20 && weight < 300
WeightValid(w) == ~w.nan /\ w.v > 200 /\ w.v < 3000

\* updateHeparinUI: the fields and selections s, giving the state after it.
\* plan is the plan on display: the texts of a hidden results panel are not
\* part of the state.
updateHeparinUI(s) ==
  LET height == ParseFloat(s.height)
      weight == ParseFloat(s.weight)
      hasHeight == s.height.kind # "empty"
      hasWeight == s.weight.kind # "empty"
      heightValid == HeightValid(height)
      weightValid == WeightValid(weight)
      plan == IF heightValid /\ weightValid
              THEN computeHeparinPlan(height.v, weight.v, s.sex, s.doseUnit,
                                      s.strategy, FALSE)
              ELSE NoPlan
      shown == heightValid /\ weightValid /\ plan.ok
  IN [s EXCEPT !.resistance = FALSE,
               !.heightErrorHidden = (~hasHeight \/ heightValid),
               !.weightErrorHidden = (~hasWeight \/ weightValid),
               !.resultsHidden = ~shown,
               !.placeholderHidden = shown,
               !.plan = IF shown THEN plan ELSE NoPlan,
               !.calls = "updateHeparinUI"]

HepHeights == Around({500, 1000, 1024, 1500, 2000, 2500})
HepWeights == Around({200, 300, 400, 675, 900, 1200, 1600, 3000})
HepFieldValues(S) == {EmptyField, TextField} \cup {NumField(v) : v \in S}
Sexes == {"male", "female"}
WeightStrategies == {"auto", "tbw", "ibw", "abw"}
DoseUnits == {300, 400}

\* initHeparinManagement binding its listeners on every call
NeverInitialized(s) == FALSE

\* if (initHeparinManagement.initialized)
AlreadyInitialized(s) == s.initialized

\* initHeparinManagement: the first call binds one listener on every control
\* and refreshes the display, a later call only refreshes the display.
\* listeners is the number of listeners bound on each control, uiUpdates the
\* number of updateHeparinUI calls made by the latest event.
initHeparinManagement(s) ==
  IF AlreadyInitialized(s) THEN [updateHeparinUI(s) EXCEPT !.uiUpdates = 1]
  ELSE [updateHeparinUI([s EXCEPT !.initialized = TRUE,
                                  !.listeners = @ + 1])
          EXCEPT !.uiUpdates = 1]

\* an event on a control: every listener bound on it runs updateHeparinUI
HepDispatch(s) == [updateHeparinUI(s) EXCEPT !.uiUpdates = s.listeners]

\* the number of listener bindings up to which navigations are followed
MaxBindings == 3

\* DOMContentLoaded: initHeparinManagement() on the page as served
HepInit ==
  initHeparinManagement([height |-> EmptyField, weight |-> EmptyField,
                         sex |-> "male", strategy |-> "auto",
                         doseUnit |-> 300, resistance |-> FALSE,
                         heightErrorHidden |-> TRUE, weightErrorHidden |-> TRUE,
                         resultsHidden |-> TRUE, placeholderHidden |-> FALSE,
                         plan |-> NoPlan, calls |-> "init",
                         initialized |-> FALSE, listeners |-> 0, uiUpdates |-> 0])

HepOthersUnchanged == UNCHANGED <<gdp, trow, do2, tq, call, priming>>

\* input event on hep2-height
HepInputHeight ==
  /\ \E f \in HepFieldValues(HepHeights) :
       hep' = HepDispatch([hep EXCEPT !.height = f])
  /\ HepOthersUnchanged

\* input event on hep2-weight
HepInputWeight ==
  /\ \E f \in HepFieldValues(HepWeights) :
       hep' = HepDispatch([hep EXCEPT !.weight = f])
  /\ HepOthersUnchanged

\* input/change event on hep2-sex
HepSelectSex ==
  /\ \E x \in Sexes : hep' = HepDispatch([hep EXCEPT !.sex = x])
  /\ HepOthersUnchanged

\* input/change event on hep2-weight-strategy
HepSelectStrategy ==
  /\ \E x \in WeightStrategies :
       hep' = HepDispatch([hep EXCEPT !.strategy = x])
  /\ HepOthersUnchanged

\* click on a [data-hep-dose] button
HepDoseClick ==
  /\ \E d \in DoseUnits : hep' = HepDispatch([hep EXCEPT !.doseUnit = d])
  /\ HepOthersUnchanged

\* route() with key 'heparin': initHeparinManagement()
HepNavigate ==
  /\ hep.listeners < MaxBindings
  /\ hep' = initHeparinManagement(hep)
  /\ HepOthersUnchanged

NextHep ==
  \/ HepNavigate
  \/ HepInputHeight
  \/ HepInputWeight
  \/ HepSelectSex
  \/ HepSelectStrategy
  \/ HepDoseClick

(***************************************************************************)
(* Heparin management with the resistance toggle (src/unnamed/part_005):   *)
(* the plan has a maintenance rate, and updateHeparinUI leaves the flag    *)
(* hepResistance as the toggle set it.                                     *)
(***************************************************************************)
\* the maintenance rate whatever the flag
maintenanceRateStandard(dosingWeight, resistance) ==
  RoundDiv(dosingWeight * 12, 10000)

\* Math.round(dosingWeight * (hepResistance ? 18 : 12))
maintenanceRate(dosingWeight, resistance) ==
  RoundDiv(dosingWeight * (IF resistance THEN 18 ELSE 12), 10000)

computeHeparinPlan_part005(h10, w10, sex, doseUnit, weightStrategy, resistance) ==
  LET plan == computeHeparinPlan(h10, w10, sex, doseUnit, weightStrategy, resistance)
  IN IF ~plan.ok THEN NoPlan
     ELSE plan @@ ("maintenanceRate" :> maintenanceRate(plan.dosingWeight, resistance))

\* the five risk-factor checkboxes hep2-rf-*
RiskFactorIds == {"sirs", "lmwh", "ecmo", "at3", "history"}

\* the level with High from three factors on
riskLevelHighFrom3(riskFactors) ==
  IF riskFactors >= 3 THEN "High"
  ELSE IF riskFactors >= 2 THEN "Moderate"
  ELSE "Low"

\* the level written into hep2-risk-chip for a count of checked factors
riskLevel(riskFactors) ==
  IF riskFactors >= 4 THEN "High"
  ELSE IF riskFactors >= 2 THEN "Moderate"
  ELSE "Low"

\* the chip of a results panel that is not shown
NoChip == [level |-> "", count |-> 0]

\* updateHeparinUI of part_005.  plan and riskChip are the plan and the chip
\* on display.
updateHeparinUI_part005(s) ==
  LET height == ParseFloat(s.height)
      weight == ParseFloat(s.weight)
      hasHeight == s.height.kind # "empty"
      hasWeight == s.weight.kind # "empty"
      heightValid == HeightValid(height)
      weightValid == WeightValid(weight)
      plan == IF heightValid /\ weightValid
              THEN computeHeparinPlan_part005(height.v, weight.v, s.sex, s.doseUnit,
                                              s.strategy, s.resistance)
              ELSE NoPlan
      shown == heightValid /\ weightValid /\ plan.ok
  IN [s EXCEPT !.heightErrorHidden = (~hasHeight \/ heightValid),
               !.weightErrorHidden = (~hasWeight \/ weightValid),
               !.resultsHidden = ~shown,
               !.placeholderHidden = shown,
               !.plan = IF shown THEN plan ELSE NoPlan,
               !.riskChip = IF shown
                            THEN [level |-> riskLevel(Cardinality(s.risk)),
                                  count |-> Cardinality(s.risk)]
                            ELSE NoChip,
               !.calls = "updateHeparinUI"]

\* the heights and weights typed into the part_005 page
HepFields_part005(S) == {EmptyField} \cup {NumField(v) : v \in S}
HepHeights_part005 == HepFields_part005({500, 1500, 1700})
HepWeights_part005 == HepFields_part005({200, 675, 1000, 1600})

HepInit_part005 ==
  updateHeparinUI_part005([height |-> EmptyField, weight |-> EmptyField,
                           sex |-> "male", strategy |-> "auto",
                           doseUnit |-> 300, resistance |-> FALSE,
                           heightErrorHidden |-> TRUE, weightErrorHidden |-> TRUE,
                           resultsHidden |-> TRUE, placeholderHidden |-> FALSE,
                           plan |-> NoPlan, risk |-> {}, riskChip |-> NoChip,
                           calls |-> "init"])

\* input event on hep2-height
HepInputHeight_part005 ==
  /\ \E f \in HepHeights_part005 :
       hep' = updateHeparinUI_part005([hep EXCEPT !.height = f])
  /\ HepOthersUnchanged

\* input event on hep2-weight
HepInputWeight_part005 ==
  /\ \E f \in HepWeights_part005 :
       hep' = updateHeparinUI_part005([hep EXCEPT !.weight = f])
  /\ HepOthersUnchanged

\* input/change event on hep2-sex
HepSelectSex_part005 ==
  /\ \E x \in Sexes : hep' = updateHeparinUI_part005([hep EXCEPT !.sex = x])
  /\ HepOthersUnchanged

\* input/change event on hep2-weight-strategy
HepSelectStrategy_part005 ==
  /\ \E x \in WeightStrategies :
       hep' = updateHeparinUI_part005([hep EXCEPT !.strategy = x])
  /\ HepOthersUnchanged

\* click on a [data-hep-dose] button
HepDoseClick_part005 ==
  /\ \E d \in DoseUnits : hep' = updateHeparinUI_part005([hep EXCEPT !.doseUnit = d])
  /\ HepOthersUnchanged

\* click on hep2-resistance-toggle
HepResistanceClick ==
  /\ hep' = updateHeparinUI_part005([hep EXCEPT !.resistance = ~hep.resistance])
  /\ HepOthersUnchanged

\* input/change event on a hep2-rf-* checkbox, after the click toggled it
HepRiskFactorClick ==
  /\ \E id \in RiskFactorIds :
       hep' = updateHeparinUI_part005(
                [hep EXCEPT !.risk = IF id \in hep.risk THEN hep.risk \ {id}
                                     ELSE hep.risk \cup {id}])
  /\ HepOthersUnchanged

NextHepResistance ==
  \/ HepInputHeight_part005
  \/ HepInputWeight_part005
  \/ HepSelectSex_part005
  \/ HepSelectStrategy_part005
  \/ HepDoseClick_part005
  \/ HepResistanceClick
  \/ HepRiskFactorClick

(***************************************************************************)
(* DO2i calculator with the piecewise-anchor temperature model             *)
(* (src/dist/main.js, second snapshot).  Field scales: h_cm, w_kg, flow,   *)
(* hb and temp_c in tenths, bsa in hundredths, sao2 and pao2 in units.     *)
(* The selected BSA method is Mosteller.  relVO2 (a Q10 power, shown only  *)
(* in the explanatory text) is not modelled.                               *)
(***************************************************************************)
\* the largest n in lo..hi with 9 * (2n - 1)^2 <= x (n = 0 always qualifies)
RECURSIVE RoundSqrt36(_, _, _)
RoundSqrt36(x, lo, hi) ==
  IF lo >= hi THEN lo
  ELSE LET mid == (lo + hi + 1) \div 2
       IN IF 9 * (2 * mid - 1) * (2 * mid - 1) <= x
          THEN RoundSqrt36(x, mid, hi)
          ELSE RoundSqrt36(x, lo, mid - 1)

\* Mosteller(h, w).toFixed(2) in hundredths: sqrt(h * w / 3600) rounded to
\* two decimals is the n with (n - 0.5)^2 <= h10 * w10 / 36 < (n + 0.5)^2
MostellerFixed2(h10, w10) == RoundSqrt36(h10 * w10, 0, 4000)

\* computeBSA(h, w, 'Mosteller') as updateBSA writes it into the bsa field:
\* v ? v.toFixed(2) : ''
BsaFieldFor(h10, w10) ==
  IF h10 = 0 \/ w10 = 0 \/ h10 <= 0 \/ w10 <= 0 THEN EmptyField
  ELSE NumField(MostellerFixed2(h10, w10))

\* calcCaO2 in 1e-5 mL/dL: 1.34 * hb * clamp(sao2/100, 0, 1) + 0.0031 * pao2
calcCaO2(hb10, sao2, pao2) == 134 * hb10 * clamp(sao2, 0, 100) + 310 * pao2

\* calcDO2i without its guard on bsa
calcDO2iUnguarded(flow10, bsa100, cao2e5) ==
  IF bsa100 = 0
  THEN (IF flow10 = 0 \/ cao2e5 = 0 THEN NaN
        ELSE Infinity(IF (flow10 < 0) = (cao2e5 < 0) THEN 1 ELSE -1))
  ELSE IF bsa100 < 0 THEN Frac(-(flow10 * cao2e5), -(bsa100 * 1000))
  ELSE Frac(flow10 * cao2e5, bsa100 * 1000)

\* calcDO2i(flow, bsa, cao2) = (flow / bsa) * cao2 * 10, 0 when bsa is not > 0
calcDO2i(flow10, bsa100, cao2e5) ==
  IF bsa100 = 0 \/ bsa100 <= 0 THEN FracInt(0)
  ELSE Frac(flow10 * cao2e5, bsa100 * 1000)

THRESHOLDS ==
  [adult |-> [low |-> 260, borderline |-> 300, upper |-> 450, max |-> 500],
   infant |-> [low |-> 340, borderline |-> 380, upper |-> 520, max |-> 600]]

BASE_TARGETS ==
  [adult |-> [low |-> 280, high |-> 300],
   infant |-> [low |-> 350, high |-> 380]]

\* anchors, temp in tenths of a degree
DAMPENED_TEMP_TARGETS_ADULT ==
  << [temp |-> 370, recMin |-> 280, recMax |-> 300, low |-> 260,
      borderline |-> 300, upper |-> 450, max |-> 500],
     [temp |-> 320, recMin |-> 240, recMax |-> 260, low |-> 210,
      borderline |-> 240, upper |-> 260, max |-> 520],
     [temp |-> 280, recMin |-> 220, recMax |-> 240, low |-> 200,
      borderline |-> 220, upper |-> 240, max |-> 520] >>

\* a slip: the two ends of the segment exchanged
lerpSwapped(a, b, tn, td) == Frac(b * td + (a - b) * tn, td)

\* lerp(a, b, t) = a + (b - a) * t for t = tn / td
lerp(a, b, tn, td) == Frac(a * td + (b - a) * tn, td)

\* the targets for a mode that has no temperature adjustment
BaseTargetsOf(mode) ==
  [recMin |-> FracInt(BASE_TARGETS[mode].low),
   recMax |-> FracInt(BASE_TARGETS[mode].high),
   low |-> FracInt(THRESHOLDS[mode].low),
   borderline |-> FracInt(THRESHOLDS[mode].borderline),
   upper |-> FracInt(THRESHOLDS[mode].upper),
   max |-> FracInt(THRESHOLDS[mode].max)]

\* the blend of the segment between anchors hi and lo at temperature t10
BlendAt(hi, lo, t10) ==
  LET rn == t10 - lo.temp
      rd == hi.temp - lo.temp
  IN [recMin |-> lerp(lo.recMin, hi.recMin, rn, rd),
      recMax |-> lerp(lo.recMax, hi.recMax, rn, rd),
      low |-> FracMax(lerp(lo.low, hi.low, rn, rd), FracInt(200)),
      borderline |-> lerp(lo.borderline, hi.borderline, rn, rd),
      upper |-> lerp(lo.upper, hi.upper, rn, rd),
      max |-> lerp(lo.max, hi.max, rn, rd)]

\* a slip: neither the clamp to the anchor range nor the floor on low; the
\* outer segments are extended beyond the first and last anchor
getTempAdjustedTargetsUnclamped(temp) ==
  IF temp.nan THEN BaseTargetsOf("adult")
  ELSE LET A == DAMPENED_TEMP_TARGETS_ADULT
           i == IF temp.v >= A[2].temp THEN 1 ELSE 2
           rn == temp.v - A[i + 1].temp
           rd == A[i].temp - A[i + 1].temp
           b == BlendAt(A[i], A[i + 1], temp.v)
       IN [b EXCEPT !.low = lerp(A[i + 1].low, A[i].low, rn, rd)]

\* getTempAdjustedTargets(tempC): tempC is NaN or a number of tenths
getTempAdjustedTargets(temp) ==
  IF temp.nan THEN BaseTargetsOf("adult")
  ELSE LET A == DAMPENED_TEMP_TARGETS_ADULT
           t == clamp(temp.v, A[Len(A)].temp, A[1].temp)
           hit == {i \in 1..(Len(A) - 1) : t <= A[i].temp /\ t >= A[i + 1].temp}
       IN IF hit # {}
          THEN LET i == CHOOSE j \in hit : \A k \in hit : j <= k
               IN BlendAt(A[i], A[i + 1], t)
          ELSE LET last == A[Len(A)]
               IN [recMin |-> FracInt(last.recMin), recMax |-> FracInt(last.recMax),
                   low |-> FracMax(FracInt(last.low), FracInt(200)),
                   borderline |-> FracInt(last.borderline),
                   upper |-> FracInt(last.upper), max |-> FracInt(last.max)]

\* a slip in the chain: <= borderline where the code has < borderline
ClassifyBorderlineInclusive(do2i, low, borderline, upper) ==
  IF FracLt(do2i, low) THEN "Low Delivery"
  ELSE IF FracLe(do2i, borderline) THEN "Borderline"
  ELSE IF FracLe(do2i, upper) THEN "Target Range"
  ELSE "High Delivery"

\* if (do2i < low) .. else if (do2i < borderline) .. else if (do2i <= upper) ..
Classify(do2i, low, borderline, upper) ==
  IF FracLt(do2i, low) THEN "Low Delivery"
  ELSE IF FracLt(do2i, borderline) THEN "Borderline"
  ELSE IF FracLe(do2i, upper) THEN "Target Range"
  ELSE "High Delivery"

\* Math.min(Math.max((do2i / max) * 100, 0), 100), as a fraction of 100
GaugePct(do2i, max) ==
  FracMin(FracMax(FracMul(FracDiv(do2i, max), FracInt(100)), FracInt(0)),
          FracInt(100))

\* updateBSA of this snapshot: a manual BSA survives only while bsa is the
\* last edited field.  lastChangedId is read only by this comparison, so
\* the ids of the other fields are kept as the one value "other".
Do2UpdateBSA(s) ==
  IF s.lastChangedId = "bsa" THEN s
  ELSE [s EXCEPT !.bsa = BsaFieldFor(OrZero(ParseFloat(s.h)),
                                     OrZero(ParseFloat(s.w)))]

SelectSeq2(names, flags) ==
  SelectSeq(names, LAMBDA x : flags[x])

\* Math.pow(1.9, (t - 37) / 10) in 1e-4 for the whole degrees 20 .. 39
Q10Pow ==
  << 3358, 3581, 3818, 4071, 4341, 4629, 4936, 5263, 5612, 5984,
     6381, 6804, 7255, 7736, 8248, 8795, 9378, 10000, 10663, 11370 >>

\* computeMetabolicFactor(tempC) in 1e-4, tempC a whole number of degrees
computeMetabolicFactor(t10) ==
  LET t == clamp(IF t10 = 0 THEN 370 ELSE t10, 200, 390)
  IN clamp(Q10Pow[(t \div 10) - 19], 3500, 11000)

\* the thresholds of the flat-Q10 snapshot: baseThresholds * factor with
\* factor = hasTemp ? clamp(computeMetabolicFactor(temp), 0.4, 1.1) : 1
Q10Targets(mode, temp) ==
  LET factor == IF temp.nan THEN 10000
                ELSE clamp(computeMetabolicFactor(temp.v), 4000, 11000)
  IN [recMin |-> FracMax(Frac(BASE_TARGETS[mode].low * factor, 10000),
                         FracInt(150)),
      recMax |-> FracMax(Frac(BASE_TARGETS[mode].high * factor, 10000),
                         FracInt(150)),
      low |-> Frac(THRESHOLDS[mode].low * factor, 10000),
      borderline |-> Frac(THRESHOLDS[mode].borderline * factor, 10000),
      upper |-> Frac(THRESHOLDS[mode].upper * factor, 10000),
      max |-> Frac(THRESHOLDS[mode].max * factor, 10000)]

\* updateDO2i of the dampened-anchor snapshot (second copy in the file)
updateDO2iDampened(s0) ==
  LET s == Do2UpdateBSA(s0)
      bsa == OrZero(ParseFloat(s.bsa))
      flow == OrZero(ParseFloat(s.flow))
      hb == OrZero(ParseFloat(s.hb))
      sao2 == OrZero(ParseFloat(s.sao2))
      pao2 == OrZero(ParseFloat(s.pao2))
      tempRaw == ParseFloat(s.temp)
      zero == [x \in {"BSA", "Pump Flow", "Hemoglobin", "SaO2", "PaO2"} |->
                 CASE x = "BSA" -> bsa = 0
                   [] x = "Pump Flow" -> flow = 0
                   [] x = "Hemoglobin" -> hb = 0
                   [] x = "SaO2" -> sao2 = 0
                   [] x = "PaO2" -> pao2 = 0]
      requiredMissing ==
        SelectSeq2(<<"BSA", "Pump Flow", "Hemoglobin", "SaO2", "PaO2">>, zero)
      temperatureTargets ==
        IF s.mode = "adult" THEN getTempAdjustedTargets(tempRaw)
        ELSE BaseTargetsOf(s.mode)
      cao2 == calcCaO2(hb, sao2, pao2)
      do2i == IF requiredMissing = <<>> THEN calcDO2i(flow, bsa, cao2)
              ELSE FracInt(0)
      classified == requiredMissing = <<>> /\ ~FracIsZero(do2i)
  IN [s EXCEPT
        !.targets = temperatureTargets,
        !.missing = requiredMissing,
        !.cao2 = IF requiredMissing = <<>> THEN cao2 ELSE 0,
        !.do2i = do2i,
        !.gaugePct = IF classified THEN GaugePct(do2i, temperatureTargets.max)
                     ELSE FracInt(0),
        !.msg = IF classified
                THEN Classify(do2i, temperatureTargets.low,
                              temperatureTargets.borderline,
                              temperatureTargets.upper)
                ELSE IF requiredMissing = <<>> THEN "Waiting for input..."
                ELSE "Enter"]

\* updateDO2i of the flat-Q10 snapshot (first copy in the file): no
\* missing-field guard, CaO2 shown whenever it is non-zero
updateDO2iQ10(s0) ==
  LET s == Do2UpdateBSA(s0)
      bsa == OrZero(ParseFloat(s.bsa))
      flow == OrZero(ParseFloat(s.flow))
      hb == OrZero(ParseFloat(s.hb))
      sao2 == OrZero(ParseFloat(s.sao2))
      pao2 == OrZero(ParseFloat(s.pao2))
      targets == Q10Targets(s.mode, ParseFloat(s.temp))
      cao2 == calcCaO2(hb, sao2, pao2)
      do2i == calcDO2i(flow, bsa, cao2)
  IN [s EXCEPT
        !.targets = targets,
        !.missing = <<>>,
        !.cao2 = cao2,
        !.do2i = do2i,
        !.gaugePct = IF ~FracIsZero(do2i) THEN GaugePct(do2i, targets.max)
                     ELSE FracInt(0),
        !.msg = IF ~FracIsZero(do2i)
                THEN Classify(do2i, targets.low, targets.borderline,
                              targets.upper)
                ELSE "Waiting..."]

\* updateDO2i of the snapshot the page runs
updateDO2i(s) ==
  IF s.snapshot = "dampened" THEN updateDO2iDampened(s) ELSE updateDO2iQ10(s)

\* the page before DOMContentLoaded; cao2 = 0 stands for the empty CaO2 field
Do2Blank(snapshot) ==
  [snapshot |-> snapshot,
   h |-> EmptyField, w |-> EmptyField, bsa |-> EmptyField, flow |-> EmptyField,
   hb |-> EmptyField, sao2 |-> EmptyField, pao2 |-> EmptyField,
   temp |-> EmptyField, mode |-> "adult", lastChangedId |-> "null",
   targets |-> BaseTargetsOf("adult"), missing |-> <<>>, cao2 |-> 0,
   do2i |-> FracInt(0), gaugePct |-> FracInt(0), msg |-> "Waiting for input..."]

Do2Snapshots == {"dampened", "q10"}

\* DOMContentLoaded: applyModeUI(); updateDO2i()
Do2Init == {updateDO2i(Do2Blank(v)) : v \in Do2Snapshots}

Do2Temps == {200, 280, 320, 370, 390}
Do2Flows == Around({21, 25, 45, 52})
Do2Inputs ==
  [h_cm |-> {1560}, w_kg |-> {390}, bsa |-> {200}, flow |-> Do2Flows,
   hb |-> {91}, sao2 |-> {100}, pao2 |-> {260}, temp_c |-> Do2Temps]
Do2FieldOf ==
  [h_cm |-> "h", w_kg |-> "w", bsa |-> "bsa", flow |-> "flow", hb |-> "hb",
   sao2 |-> "sao2", pao2 |-> "pao2", temp_c |-> "temp"]

Do2OthersUnchanged == UNCHANGED <<hep, gdp, trow, tq, call, priming>>

\* input event on one of the do2iIds fields: lastChangedId = id; updateDO2i()
Do2Input ==
  /\ \E id \in DOMAIN Do2Inputs :
       \E f \in {EmptyField} \cup {NumField(v) : v \in Do2Inputs[id]} :
         do2' = updateDO2i([do2 EXCEPT ![Do2FieldOf[id]] = f,
                                       !.lastChangedId =
                                         IF id = "bsa" THEN "bsa" ELSE "other"])
  /\ Do2OthersUnchanged

\* click on mode-adult / mode-infant: do2iMode = ..; applyModeUI(); updateDO2i()
Do2SetMode ==
  /\ \E m \in {"adult", "infant"} : do2' = updateDO2i([do2 EXCEPT !.mode = m])
  /\ Do2OthersUnchanged

\* click on reset-do2i: lastChangedId = null; resetDO2i() clears the fields
\* and the displayed result and returns to adult mode with the base legend
Do2Reset ==
  /\ do2' = Do2Blank(do2.snapshot)
  /\ Do2OthersUnchanged

NextDo2 ==
  \/ Do2Input
  \/ Do2SetMode
  \/ Do2Reset

(***************************************************************************)
(* The two temperature models as functions of a temperature reading:       *)
(* getTempAdjustedTargets (src/dist/main.js) as the adult branch of        *)
(* updateDO2i calls it, and the banded targets of updateGDP                *)
(* (src/unnamed/part_005) with the default target of 280.  tq holds the    *)
(* latest reading with both results and the reading before it.             *)
(* Temperatures are in tenths of a degree.                                 *)
(***************************************************************************)
TEMP_PROFILES ==
  << [min |-> 360, max |-> 400, label |-> "37C (Normothermia)",
      ciMin |-> 24, ciMax |-> 26, vo2Factor |-> 100,
      do2Min |-> 280, do2Max |-> 300],
     [min |-> 320, max |-> 360, label |-> "32C (Mild hypothermia)",
      ciMin |-> 20, ciMax |-> 22, vo2Factor |-> 72,
      do2Min |-> 240, do2Max |-> 260],
     [min |-> 280, max |-> 320, label |-> "28C (Moderate hypothermia)",
      ciMin |-> 16, ciMax |-> 18, vo2Factor |-> 57,
      do2Min |-> 220, do2Max |-> 240],
     [min |-> 200, max |-> 280, label |-> "<=25C (Deep hypothermia)",
      ciMin |-> 12, ciMax |-> 15, vo2Factor |-> 45,
      do2Min |-> 200, do2Max |-> 220] >>

\* for (const p of TEMP_PROFILES) .. return p; return TEMP_PROFILES[0]:
\* the first of the accepting bands, the first band if none accepts
FirstBand(hit) ==
  IF hit = {} THEN 1 ELSE CHOOSE i \in hit : \A j \in hit : i <= j

\* a slip: each band takes its upper bound and leaves its lower bound out
getTempProfileUpperInclusive(temp) ==
  IF temp.nan THEN 0
  ELSE FirstBand({i \in 1..Len(TEMP_PROFILES) :
                    temp.v > TEMP_PROFILES[i].min
                    /\ temp.v <= TEMP_PROFILES[i].max})

\* a slip: outside all bands the last listed band is returned
getTempProfileFallbackLast(temp) ==
  IF temp.nan THEN 0
  ELSE LET hit == {i \in 1..Len(TEMP_PROFILES) :
                     temp.v >= TEMP_PROFILES[i].min
                     /\ temp.v < TEMP_PROFILES[i].max}
       IN IF hit = {} THEN Len(TEMP_PROFILES) ELSE FirstBand(hit)

\* getTempProfile(tempC): the index of the returned band, 0 for null
getTempProfile(temp) ==
  IF temp.nan THEN 0
  ELSE FirstBand({i \in 1..Len(TEMP_PROFILES) :
                    temp.v >= TEMP_PROFILES[i].min
                    /\ temp.v < TEMP_PROFILES[i].max})

\* updateGDP: profile, tempAdjustedMin / Max and lowerTarget / upperTarget
BandTargets(temp, targetDO2i) ==
  LET profile == getTempProfile(temp)
      HARD_FLOOR == 200
      recommendedMin == IF profile # 0 THEN FracInt(TEMP_PROFILES[profile].do2Min)
                        ELSE Frac(targetDO2i * 9, 10)
      recommendedMax == IF profile # 0 THEN FracInt(TEMP_PROFILES[profile].do2Max)
                        ELSE Frac(targetDO2i * 11, 10)
      tempAdjustedMin == IF profile # 0
                         THEN FracMax(recommendedMin, FracInt(HARD_FLOOR))
                         ELSE recommendedMin
      tempAdjustedMax == IF profile # 0
                         THEN FracMax(recommendedMax, tempAdjustedMin)
                         ELSE recommendedMax
  IN [profile |-> profile,
      lowerTarget |-> IF profile # 0 THEN tempAdjustedMin
                      ELSE Frac(targetDO2i * 9, 10),
      upperTarget |-> IF profile # 0 THEN tempAdjustedMax
                      ELSE Frac(targetDO2i * 11, 10)]

NoTemp == [nan |-> TRUE, v |-> 0]
TempOf(t10) == [nan |-> FALSE, v |-> t10]

\* let targetDO2i = 280
DefaultTargetDO2i == 280

TqApply(s, temp) ==
  [temp |-> temp,
   targets |-> getTempAdjustedTargets(temp),
   band |-> BandTargets(temp, DefaultTargetDO2i),
   prevTemp |-> s.temp,
   prevTargets |-> s.targets]

TqInit ==
  TqApply([temp |-> NoTemp, targets |-> getTempAdjustedTargets(NoTemp)], NoTemp)

TqTemps ==
  {0} \cup {10 * c : c \in TempMinC..TempMaxC}
      \cup Around({200, 280, 320, 360, 370, 390, 400})

TqOthersUnchanged == UNCHANGED <<hep, gdp, trow, do2, call, priming>>

\* a temperature is entered
TqReading ==
  /\ \E t \in TqTemps : tq' = TqApply(tq, TempOf(t))
  /\ TqOthersUnchanged

\* the temperature field is cleared
TqCleared ==
  /\ tq' = TqApply(tq, NoTemp)
  /\ TqOthersUnchanged

NextTq ==
  \/ TqReading
  \/ TqCleared

(***************************************************************************)
(* Time calculator: one row of the five (the rows share no state).  Field  *)
(* texts are sequences of one-character strings.  trow.snapshot selects    *)
(* updateTimeRow of src/main.js ("main") or of src/unnamed/part_005        *)
(* ("part_005"); the other functions are the same in both files.           *)
(***************************************************************************)
DigitChars == <<"0", "1", "2", "3", "4", "5", "6", "7", "8", "9">>
IsDigit(c) == \E i \in 1..10 : DigitChars[i] = c
DigitVal(c) == (CHOOSE i \in 1..10 : DigitChars[i] = c) - 1

\* Number(d1 d2 ..) of a sequence of digits
RECURSIVE NumberOf(_)
NumberOf(ds) ==
  IF ds = <<>> THEN 0
  ELSE 10 * NumberOf(SubSeq(ds, 1, Len(ds) - 1)) + DigitVal(ds[Len(ds)])

\* n.toString().padStart(2, '0') for 0 <= n <= 99
Pad2(n) == <<DigitChars[(n \div 10) + 1], DigitChars[(n % 10) + 1]>>

\* str.trim()
RECURSIVE TrimLeft(_)
TrimLeft(str) ==
  IF str # <<>> /\ Head(str) = " " THEN TrimLeft(Tail(str)) ELSE str
RECURSIVE TrimRight(_)
TrimRight(str) ==
  IF str # <<>> /\ str[Len(str)] = " "
  THEN TrimRight(SubSeq(str, 1, Len(str) - 1)) ELSE str
Trim(str) == TrimRight(TrimLeft(str))

\* str.replace(/\D/g, '')
DigitsOnly(str) == SelectSeq(str, IsDigit)

\* /^(\d{1,2}):([0-5]\d)$/ matches str
MatchesHM(str) ==
  /\ Len(str) \in {4, 5}
  /\ str[Len(str) - 2] = ":"
  /\ \A i \in 1..(Len(str) - 3) : IsDigit(str[i])
  /\ IsDigit(str[Len(str) - 1]) /\ DigitVal(str[Len(str) - 1]) <= 5
  /\ IsDigit(str[Len(str)])

NullTime == [null |-> TRUE, v |-> 0]
Minutes(n) == [null |-> FALSE, v |-> n]

parseTimeToMinutes(str) ==
  IF str = <<>> THEN NullTime
  ELSE LET cleaned == Trim(str)
           numericOnly == DigitsOnly(cleaned)
       IN IF Len(numericOnly) = 4
          THEN LET h == NumberOf(SubSeq(numericOnly, 1, 2))
                   m == NumberOf(SubSeq(numericOnly, 3, 4))
               IN IF h > 23 \/ m > 59 THEN NullTime ELSE Minutes(h * 60 + m)
          ELSE IF ~MatchesHM(cleaned) THEN NullTime
          ELSE LET h == NumberOf(SubSeq(cleaned, 1, Len(cleaned) - 3))
                   m == NumberOf(SubSeq(cleaned, Len(cleaned) - 1, Len(cleaned)))
               IN IF h > 23 THEN NullTime ELSE Minutes(h * 60 + m)

\* formatDuration(mins): "-" or "<mins> min (<h>:<mm>)"
Dash == [kind |-> "dash", mins |-> 0, h |-> 0, mm |-> 0]
formatDuration(mins) ==
  IF mins < 0 THEN Dash
  ELSE [kind |-> "duration", mins |-> mins, h |-> mins \div 60, mm |-> mins % 60]

\* formatMinutesToHHMM(totalMins) for 0 <= totalMins < 6000
formatMinutesToHHMM(totalMins) ==
  Pad2(totalMins \div 60) \o <<":">> \o Pad2(Max2(totalMins % 60, 0))

\* a slip: the wrap of a negative difference left out
WrapDiffMissing(diff) == diff

\* if (diff < 0) diff += 24 * 60
WrapDiff(diff) == IF diff < 0 THEN diff + 24 * 60 ELSE diff

\* startReady / endReady of updateTimeRow
TimeReady(str) ==
  LET raw == Trim(str)
  IN Len(DigitsOnly(raw)) >= 4 \/ MatchesHM(raw)

\* updateTimeRow(idx) of the snapshot the page runs
updateTimeRow(s) ==
  LET startMin == parseTimeToMinutes(s.start)
      endMin == parseTimeToMinutes(s.end)
      base == [s EXCEPT !.startMin = startMin, !.endMin = endMin,
                        !.startError = TimeReady(s.start) /\ startMin.null,
                        !.endError = TimeReady(s.end) /\ endMin.null]
  IN IF startMin.null \/ endMin.null THEN [base EXCEPT !.result = Dash]
     ELSE IF s.snapshot = "main"
     THEN LET wraps == /\ endMin.v < startMin.v
                       /\ endMin.v < 24 * 60 /\ startMin.v < 24 * 60
              adjustedEnd == IF wraps THEN endMin.v + 24 * 60 ELSE endMin.v
          IN [base EXCEPT
                !.end = IF wraps THEN formatMinutesToHHMM(adjustedEnd) ELSE @,
                !.result = formatDuration(WrapDiff(adjustedEnd - startMin.v))]
     ELSE [base EXCEPT !.result = formatDuration(WrapDiff(endMin.v - startMin.v))]

\* autoFormatTimeInput: the field text and its error ring afterwards
autoFormatTimeInput(raw, error) ==
  LET digits == DigitsOnly(raw)
  IN IF Len(digits) = 4
     THEN LET hoursNum == NumberOf(SubSeq(digits, 1, 2))
              minsNum == NumberOf(SubSeq(digits, 3, 4))
          IN IF hoursNum > 23 \/ minsNum > 59
             THEN [value |-> <<>>, error |-> TRUE]
             ELSE [value |-> Pad2(hoursNum) \o <<":">> \o Pad2(minsNum),
                   error |-> FALSE]
     ELSE [value |-> raw, error |-> IF raw = <<>> THEN FALSE ELSE error]

TimeSnapshots == {"main", "part_005"}

TimeInit ==
  {[snapshot |-> v, start |-> <<>>, end |-> <<>>, result |-> Dash,
    startMin |-> NullTime, endMin |-> NullTime,
    startError |-> FALSE, endError |-> FALSE] : v \in TimeSnapshots}

\* what is typed or pasted into a time field
TimeTexts ==
  { <<>>,
    <<"2", "3", ":", "5", "0">>,
    <<"0", "0", ":", "1", "0">>,
    <<"0", "8", ":", "0", "0">>,
    <<"0", "7", ":", "5", "9">>,
    <<"0", "8", "0", "0">>,
    <<"2", "4", "6", "0">>,
    <<"2", "4", ":", "1", "0">>,
    <<"8", ":", "0", "5">>,
    <<"1", "2", ":", "6">>,
    <<" ", "9", ":", "3", "0">>,
    <<"2", "5", ":", "3", "0">> }

\* the wall clock read by getCurrentTimeHHMM, as <<hours, minutes>>
TimeClock == {<<7, 59>>, <<0, 10>>, <<23, 50>>}
getCurrentTimeHHMM(now) == Pad2(now[1]) \o <<":">> \o Pad2(now[2])

TimeOthersUnchanged == UNCHANGED <<hep, gdp, do2, tq, call, priming>>

\* input on the start field: autoFormatTimeInput(s); updateTimeRow(i)
TimeInputStart ==
  /\ \E txt \in TimeTexts :
       LET f == autoFormatTimeInput(txt, trow.startError)
       IN trow' = updateTimeRow([trow EXCEPT !.start = f.value,
                                             !.startError = f.error])
  /\ TimeOthersUnchanged

\* input on the end field: autoFormatTimeInput(e); updateTimeRow(i)
TimeInputEnd ==
  /\ \E txt \in TimeTexts :
       LET f == autoFormatTimeInput(txt, trow.endError)
       IN trow' = updateTimeRow([trow EXCEPT !.end = f.value,
                                             !.endError = f.error])
  /\ TimeOthersUnchanged

\* blur of either field: updateTimeRow(i)
TimeBlur ==
  /\ trow' = updateTimeRow(trow)
  /\ TimeOthersUnchanged

\* click on the start "now" button
TimeNowStart ==
  /\ \E now \in TimeClock :
       trow' = updateTimeRow([trow EXCEPT !.start = getCurrentTimeHHMM(now),
                                          !.startError = FALSE])
  /\ TimeOthersUnchanged

\* click on the end "now" button
TimeNowEnd ==
  /\ \E now \in TimeClock :
       trow' = updateTimeRow([trow EXCEPT !.end = getCurrentTimeHHMM(now),
                                          !.endError = FALSE])
  /\ TimeOthersUnchanged

NextTime ==
  \/ TimeInputStart
  \/ TimeInputEnd
  \/ TimeBlur
  \/ TimeNowStart
  \/ TimeNowEnd

(***************************************************************************)
(* GDP calculator of src/main.js.  Field scales as in the DO2i calculator: *)
(* h_cm, w_kg, flow and hb in tenths, bsa in hundredths, sao2, pao2 and    *)
(* the DO2i target in units.  The BSA method is Mosteller or DuBois.       *)
(***************************************************************************)
\* BSA.DuBois(h, w).toFixed(2) in hundredths, tabulated for the heights and
\* weights that are entered: 0.007184 * 156^0.725 * 39^0.425 = 1.3261...
DuBoisFixed2(h10, w10) ==
  CASE h10 = 1560 /\ w10 = 390 -> 133

\* computeBSA(h, w, method) as updateBSA writes it into the bsa field
BsaFieldForMethod(h10, w10, method) ==
  IF h10 = 0 \/ w10 = 0 \/ h10 <= 0 \/ w10 <= 0 THEN EmptyField
  ELSE IF method = "DuBois" THEN NumField(DuBoisFixed2(h10, w10))
  ELSE NumField(MostellerFixed2(h10, w10))

GdpAutoFields == {"h_cm", "w_kg", "bsa-method"}

\* updateBSA returning early whenever bsaManualOverride is set
KeepsManualBsaAlways(s) == s.bsaManualOverride

\* updateBSA's early return: bsaManualOverride && !autoFields.includes(lastChangedId)
KeepsManualBsa(s) == s.bsaManualOverride /\ s.lastChangedId \notin GdpAutoFields

\* updateBSA: a manual BSA is kept until height, weight or method changes
GdpUpdateBSA(s) ==
  IF KeepsManualBsa(s) THEN s
  ELSE [s EXCEPT
          !.bsaManualOverride =
             IF s.lastChangedId \in GdpAutoFields THEN FALSE ELSE @,
          !.bsa = BsaFieldForMethod(OrZero(ParseFloat(s.h)), OrZero(ParseFloat(s.w)),
                                    s.method)]

\* calcRequiredFlowLmin dividing by cao2 instead of cao2 * 10
calcRequiredFlowLminNoTen(target, bsa100, cao2e5) ==
  IF FracIsZero(target) \/ bsa100 = 0 \/ cao2e5 = 0 THEN FracInt(0)
  ELSE FracDiv(FracMul(target, Frac(bsa100, 100)), Frac(cao2e5, 100000))

\* calcRequiredFlowLmin(target, bsa, cao2) = target * bsa / (cao2 * 10),
\* target given as a fraction
calcRequiredFlowLmin(target, bsa100, cao2e5) ==
  IF FracIsZero(target) \/ bsa100 = 0 \/ cao2e5 = 0 THEN FracInt(0)
  ELSE FracDiv(FracMul(target, Frac(bsa100, 100)), Frac(cao2e5, 10000))

\* computeGdpResults(inputs)
computeGdpResults(s) ==
  LET bsa == OrZero(ParseFloat(s.bsa))
      flow == OrZero(ParseFloat(s.flow))
      hb == OrZero(ParseFloat(s.hb))
      sao2 == OrZero(ParseFloat(s.sao2))
      pao2 == OrZero(ParseFloat(s.pao2))
      cao2 == calcCaO2(hb, sao2, pao2)
      normothermicMin == RoundDiv(s.targetDO2i * 9, 10)
      normothermicMax == RoundDiv(s.targetDO2i * 11, 10)
      flowTargetDo2i == Frac(normothermicMin + normothermicMax, 2)
  IN [bsa |-> bsa, hb |-> hb, sao2 |-> sao2, pao2 |-> pao2, flow |-> flow,
      currentCI |-> IF bsa # 0 THEN Frac(flow * 10, bsa) ELSE FracInt(0),
      cao2 |-> cao2,
      requiredFlow |-> calcRequiredFlowLmin(flowTargetDo2i, bsa, cao2),
      currentDO2i |-> IF flow # 0 THEN calcDO2i(flow, bsa, cao2) ELSE FracInt(0),
      baseTarget |-> s.targetDO2i,
      recommendedMin |-> normothermicMin,
      recommendedMax |-> normothermicMax]

\* text of an output element: the dash or a value
DashText == [dash |-> TRUE, v |-> FracInt(0)]
ValueText(f) == [dash |-> FALSE, v |-> f]

\* Math.round of a non-negative fraction
RoundFrac(f) == FracInt(RoundDiv(f.n, f.d))

\* updateGDP
updateGDP(s0) ==
  LET s == GdpUpdateBSA(s0)
      results == computeGdpResults(s)
      zero == [x \in {"BSA", "Hemoglobin", "SaO2", "PaO2", "Target DO2i"} |->
                 CASE x = "BSA" -> s.bsa.kind = "empty"
                   [] x = "Hemoglobin" -> s.hb.kind = "empty"
                   [] x = "SaO2" -> s.sao2.kind = "empty"
                   [] x = "PaO2" -> s.pao2.kind = "empty"
                   [] x = "Target DO2i" -> s.targetDO2i = 0]
      requiredMissing ==
        SelectSeq2(<<"BSA", "Hemoglobin", "SaO2", "PaO2", "Target DO2i">>, zero)
      withCao2 == [s EXCEPT !.cao2 = results.cao2]
      blocked == \/ requiredMissing # <<>>
                 \/ results.bsa = 0 \/ results.hb = 0
                 \/ results.sao2 = 0 \/ results.pao2 = 0
                 \/ s.targetDO2i = 0
      cur == results.currentDO2i
      lowerTarget == FracInt(results.recommendedMin)
      upperTarget == FracInt(results.recommendedMax)
      denom == IF results.recommendedMax > 0
               THEN Frac(results.recommendedMax * 105, 100)
               ELSE FracInt(IF s.targetDO2i # 0 THEN s.targetDO2i ELSE 1)
      deltaFlowPositive == FracLt(Frac(results.flow, 10), results.requiredFlow)
  IN IF blocked
     THEN [withCao2 EXCEPT
             !.warningHidden = FALSE,
             !.warning = requiredMissing,
             !.requiredFlow = DashText,
             !.currentDO2i = DashText,
             !.statusText = "Awaiting data",
             !.statusDetail = "Provide required inputs",
             !.gaugeWidth = FracInt(0)]
     ELSE [withCao2 EXCEPT
             !.warningHidden = TRUE,
             !.requiredFlow = IF FracIsZero(results.requiredFlow) THEN DashText
                              ELSE ValueText(results.requiredFlow),
             !.currentDO2i = IF FracIsZero(cur) THEN DashText
                             ELSE ValueText(RoundFrac(cur)),
             !.statusText =
                IF FracIsZero(cur) THEN "Waiting for current flow"
                ELSE IF FracLt(cur, lowerTarget) THEN "Below target"
                ELSE IF FracLt(upperTarget, cur) THEN "Above target"
                ELSE "At / near target",
             !.statusDetail =
                IF FracIsZero(cur) THEN "Enter current pump flow"
                ELSE IF FracLt(cur, lowerTarget)
                THEN (IF deltaFlowPositive THEN "Needs approximately more flow"
                      ELSE "Increase flow")
                ELSE IF FracLt(upperTarget, cur) THEN "Above the goal"
                ELSE "Within 10% of the goal",
             !.gaugeWidth =
                IF FracIsZero(cur) THEN FracInt(0)
                ELSE FracMin(FracMax(FracMul(FracDiv(cur, denom), FracInt(100)),
                                     FracInt(0)), FracInt(100))]

\* the page as loaded, before the first updateGDP
GdpBlank ==
  [h |-> EmptyField, w |-> EmptyField, bsa |-> EmptyField, flow |-> EmptyField,
   hb |-> EmptyField, sao2 |-> EmptyField, pao2 |-> EmptyField,
   custom |-> EmptyField, targetDO2i |-> 280, targetMode |-> "preset",
   method |-> "Mosteller",
   lastChangedId |-> "null", bsaManualOverride |-> FALSE,
   cao2 |-> 0, warningHidden |-> TRUE, warning |-> <<>>,
   requiredFlow |-> DashText, currentDO2i |-> DashText,
   statusText |-> "Awaiting data", statusDetail |-> "Provide required inputs",
   gaugeWidth |-> FracInt(0)]

\* DOMContentLoaded: updateTargetDisplay(); updateGDP()
GdpInit == updateGDP(GdpBlank)

GdpInputs ==
  [h_cm |-> {1560}, w_kg |-> {390}, bsa |-> {200}, flow |-> {23, 26, 32},
   hb |-> {0, 91}, sao2 |-> {100}, pao2 |-> {260}]
GdpFieldOf ==
  [h_cm |-> "h", w_kg |-> "w", bsa |-> "bsa", flow |-> "flow", hb |-> "hb",
   sao2 |-> "sao2", pao2 |-> "pao2"]
GdpPresets == {260, 280, 300, 360}
GdpMethods == {"Mosteller", "DuBois"}
GdpCustomValues == {0, 250, 255}

GdpOthersUnchanged == UNCHANGED <<hep, trow, do2, tq, call, priming>>

\* input event on one of the gdpIds fields
GdpInput ==
  /\ \E id \in DOMAIN GdpInputs :
       \E f \in {EmptyField} \cup {NumField(v) : v \in GdpInputs[id]} :
         gdp' = updateGDP([gdp EXCEPT
                   ![GdpFieldOf[id]] = f,
                   !.lastChangedId = id,
                   !.bsaManualOverride = IF id = "bsa" THEN TRUE ELSE @])
  /\ GdpOthersUnchanged

\* input or change event on bsa-method
GdpMethodChange ==
  /\ \E m \in GdpMethods :
       gdp' = updateGDP([gdp EXCEPT !.method = m, !.lastChangedId = "bsa-method"])
  /\ GdpOthersUnchanged

\* click on a preset target pill
GdpPresetClick ==
  /\ \E v \in GdpPresets :
       gdp' = updateGDP([gdp EXCEPT !.targetMode = "preset", !.targetDO2i = v])
  /\ GdpOthersUnchanged

\* click on the custom pill: the target becomes the custom field's value
GdpCustomClick ==
  /\ LET v == OrZero(ParseFloat(gdp.custom))
     IN gdp' = updateGDP([gdp EXCEPT !.targetMode = "custom",
                                     !.targetDO2i = IF v > 0 THEN v ELSE 0])
  /\ GdpOthersUnchanged

\* input in the custom target field
GdpCustomInput ==
  /\ \E f \in {EmptyField} \cup {NumField(v) : v \in GdpCustomValues} :
       LET v == OrZero(ParseFloat(f))
       IN gdp' = updateGDP([gdp EXCEPT !.custom = f, !.targetMode = "custom",
                                       !.targetDO2i = IF v > 0 THEN v ELSE 0])
  /\ GdpOthersUnchanged

\* click on do2i-reset: lastChangedId = null; resetGDP()
GdpReset ==
  /\ gdp' = updateGDP([GdpBlank EXCEPT !.method = gdp.method])
  /\ GdpOthersUnchanged

NextGdp ==
  \/ GdpInput
  \/ GdpMethodChange
  \/ GdpPresetClick
  \/ GdpCustomClick
  \/ GdpCustomInput
  \/ GdpReset

(***************************************************************************)
(* Priming volume calculator (src/main.js).  The length field is in tenths *)
(* of the selected unit.  A volume is pi times a fraction: the texts hold   *)
(* that fraction, which the page formats with toFixed.                     *)
(***************************************************************************)
\* idMm of each tube of PRIMING_TUBE_IDS, by key
PRIMING_TUBE_IDS ==
  [a |-> Frac(127, 10), b |-> Frac(381, 40), c |-> Frac(127, 20),
   d |-> Frac(381, 80), e |-> Frac(381, 160), f |-> Frac(127, 80)]
TubeKeys == [a |-> "1/2", b |-> "3/8", c |-> "1/4", d |-> "3/16", e |-> "3/32", f |-> "1/16"]

\* PRIMING_TUBE_IDS.find(item => item.key === key): the idMm, or none
NoTube == [found |-> FALSE, idMm |-> FracInt(0)]
FindTube(key) ==
  IF \E t \in DOMAIN TubeKeys : TubeKeys[t] = key
  THEN [found |-> TRUE,
        idMm |-> PRIMING_TUBE_IDS[CHOOSE t \in DOMAIN TubeKeys : TubeKeys[t] = key]]
  ELSE NoTube

\* a field holding only blanks
BlankField == [kind |-> "blank", n |-> 0]

\* convertLengthToMeters reading feet with the factor for inches
convertLengthToMetersFeetAsInches(length10, unit) ==
  IF unit = "cm" THEN Frac(length10, 1000)
  ELSE IF unit = "m" THEN Frac(length10, 10)
  ELSE IF unit = "ft" THEN FracMul(Frac(length10, 10), Frac(127, 5000))
  ELSE IF unit = "in" THEN FracMul(Frac(length10, 10), Frac(127, 5000))
  ELSE Frac(length10, 10)

\* convertLengthToMeters(length, unit) for a number length >= 0
convertLengthToMeters(length10, unit) ==
  IF unit = "cm" THEN Frac(length10, 1000)
  ELSE IF unit = "m" THEN Frac(length10, 10)
  ELSE IF unit = "ft" THEN FracMul(Frac(length10, 10), Frac(381, 1250))
  ELSE IF unit = "in" THEN FracMul(Frac(length10, 10), Frac(127, 5000))
  ELSE Frac(length10, 10)

\* calculatePrimingVolumeMl(idMm, lengthM) / pi = idMm^2 * lengthM / 4
calculatePrimingVolumeMl(idMm, lengthM) ==
  FracMul(FracMul(FracMul(idMm, idMm), lengthM), Frac(1, 4))

\* updatePrimingVolume
updatePrimingVolume(s) ==
  LET tube == FindTube(s.id)
      mlPerM == FracMul(FracMul(tube.idMm, tube.idMm), Frac(1, 4))
      s1 == IF tube.found
            THEN [s EXCEPT !.idMm = ValueText(tube.idMm),
                           !.mlPerM = ValueText(mlPerM),
                           !.mlPerCm = ValueText(FracMul(mlPerM, Frac(1, 100)))]
            ELSE [s EXCEPT !.idMm = DashText, !.mlPerM = DashText, !.mlPerCm = DashText]
      lengthProvided == s.length.kind \notin {"empty", "blank"}
      lengthValue == ParseFloat(s.length)
      lengthInvalid == lengthProvided /\ (lengthValue.nan \/ lengthValue.v < 0)
      s2 == [s1 EXCEPT !.errorHidden = ~lengthInvalid]
  IN IF lengthInvalid \/ ~lengthProvided
     THEN [s2 EXCEPT !.lengthM = DashText, !.volume = DashText]
     ELSE LET lengthM == convertLengthToMeters(lengthValue.v, s.unit)
          IN IF ~tube.found
             THEN [s2 EXCEPT !.lengthM = ValueText(lengthM), !.volume = DashText]
             ELSE [s2 EXCEPT !.lengthM = ValueText(lengthM),
                             !.volume = ValueText(calculatePrimingVolumeMl(tube.idMm, lengthM))]

PrimingIds == {TubeKeys[t] : t \in DOMAIN TubeKeys} \cup {""}
PrimingUnits == {"cm", "m", "ft", "in", "yd"}
PrimingLengths ==
  {EmptyField, BlankField, TextField} \cup {NumField(v) : v \in {-10, -1, 0, 5, 15, 20}}

\* the page after updatePrimingVolume() at load, whatever option the selects
\* start on
PrimingInit ==
  {updatePrimingVolume([id |-> id, length |-> EmptyField, unit |-> u,
                        idMm |-> DashText, mlPerM |-> DashText, mlPerCm |-> DashText,
                        errorHidden |-> TRUE, lengthM |-> DashText,
                        volume |-> DashText]) :
     id \in PrimingIds, u \in PrimingUnits}

PrimingOthersUnchanged == UNCHANGED <<hep, gdp, trow, do2, tq, call>>

\* input/change event on priming-id
PrimingInputId ==
  /\ \E id \in PrimingIds : priming' = updatePrimingVolume([priming EXCEPT !.id = id])
  /\ PrimingOthersUnchanged

\* input/change event on priming-length
PrimingInputLength ==
  /\ \E f \in PrimingLengths :
       priming' = updatePrimingVolume([priming EXCEPT !.length = f])
  /\ PrimingOthersUnchanged

\* input/change event on priming-length-unit
PrimingInputUnit ==
  /\ \E u \in PrimingUnits : priming' = updatePrimingVolume([priming EXCEPT !.unit = u])
  /\ PrimingOthersUnchanged

NextPriming ==
  \/ PrimingInputId
  \/ PrimingInputLength
  \/ PrimingInputUnit

(***************************************************************************)
(* The pure functions, called directly.  call holds one call: the function *)
(* name, its arguments, and, once the call has returned, its result.       *)
(***************************************************************************)
NoCall == [fn |-> "none", done |-> FALSE]
PagesUnchanged == UNCHANGED <<hep, gdp, trow, do2, tq, priming>>

\* the characters time texts are made of: digits, the colon, a blank, a letter
TimeAlphabet == {"0", "2", "4", "6", ":", " ", "x"}
TimeStrings == UNION {[1..k -> TimeAlphabet] : k \in 0..MaxTimeLen}

ParseCalls ==
  {[fn |-> "parseTimeToMinutes", done |-> FALSE, str |-> str, out |-> NullTime] :
     str \in TimeStrings}

\* parseTimeToMinutes(str) is called and returns
CallParseTime ==
  /\ call.fn = "parseTimeToMinutes" /\ ~call.done
  /\ call' = [call EXCEPT !.done = TRUE, !.out = parseTimeToMinutes(call.str)]
  /\ PagesUnchanged

NextParse ==
  \/ CallParseTime

\* a numeric argument: a number (heights and weights in tenths), or missing
\* (undefined, null or NaN)
Missing == [nan |-> TRUE, v |-> 0]
Num(v) == [nan |-> FALSE, v |-> v]

\* !x for a numeric argument
Falsy(x) == x.nan \/ x.v = 0

(* computeBSA.  A result is the formula that produced it, its sign, and for *)
(* Mosteller the square of the value, h * w / 3600; raised is a TypeError.  *)
BsaNumber(formula, sign, sq) ==
  [raised |-> FALSE, formula |-> formula, sign |-> sign, sq |-> sq]
BsaReturnZero == BsaNumber("none", "zero", FracInt(0))
BsaTypeError == [raised |-> TRUE, formula |-> "none", sign |-> "nan", sq |-> FracInt(0)]

\* the sign of Math.pow(x, e) for a fractional exponent, and of a product
PowSign(x10) == IF x10 > 0 THEN "pos" ELSE IF x10 = 0 THEN "zero" ELSE "nan"
TimesSign(a, b) ==
  IF a = "nan" \/ b = "nan" THEN "nan"
  ELSE IF a = "zero" \/ b = "zero" THEN "zero"
  ELSE "pos"

\* the keys of the BSA table of a variant
BsaKeys(variant) ==
  IF variant = "main" THEN {"Mosteller", "DuBois", "Haycock", "Boyd", "GehanGeorge"}
  ELSE {"Mosteller", "DuBois", "Haycock", "GehanGeorge"}

\* BSA.Mosteller(h, w) = Math.sqrt((h * w) / 3600)
Mosteller(h10, w10) ==
  IF h10 * w10 < 0 THEN BsaNumber("Mosteller", "nan", FracInt(0))
  ELSE IF h10 * w10 = 0 THEN BsaNumber("Mosteller", "zero", FracInt(0))
  ELSE BsaNumber("Mosteller", "pos", Frac(h10 * w10, 360000))

\* BSA[key](h, w): the other formulas are a positive coefficient times a power
\* of h times a power of w (of the weight in grams for Boyd)
BSA(key, h10, w10) ==
  IF key = "Mosteller" THEN Mosteller(h10, w10)
  ELSE BsaNumber(key, TimesSign(PowSign(h10), PowSign(w10)), FracInt(0))

\* computeBSA without the h <= 0 || w <= 0 part of its guard
computeBSAFalsyOnly(h, w, method, variant) ==
  IF Falsy(h) \/ Falsy(w) THEN BsaReturnZero
  ELSE IF method \in BsaKeys("main") THEN BSA(method, h.v, w.v)
  ELSE Mosteller(h.v, w.v)

\* computeBSA(h, w, method): src/main.js takes BSA[method] || BSA.Mosteller,
\* src/dist/main.js calls BSA[method || 'Mosteller']
computeBSA(h, w, method, variant) ==
  IF Falsy(h) \/ Falsy(w) \/ h.v <= 0 \/ w.v <= 0 THEN BsaReturnZero
  ELSE IF variant = "main"
  THEN IF method \in BsaKeys("main") THEN BSA(method, h.v, w.v)
       ELSE Mosteller(h.v, w.v)
  ELSE LET key == IF method = "" THEN "Mosteller" ELSE method
       IN IF key \in BsaKeys("dist") THEN BSA(key, h.v, w.v)
          ELSE BsaTypeError

BsaVariants == {"main", "dist"}
\* "" stands for a missing or empty method name
BsaMethods == {"Mosteller", "DuBois", "Haycock", "Boyd", "GehanGeorge", "Foo", ""}
BsaHeights == {Missing} \cup {Num(v) : v \in {-1700, -1, 0, 1, 1700, 1800}}
BsaWeights == {Missing} \cup {Num(v) : v \in {-800, -1, 0, 1, 700, 800}}

BsaCalls ==
  {[fn |-> "computeBSA", done |-> FALSE, h |-> h, w |-> w, method |-> m,
    variant |-> v, out |-> BsaReturnZero] :
     h \in BsaHeights, w \in BsaWeights, m \in BsaMethods, v \in BsaVariants}

\* computeBSA(h, w, method) is called and returns or raises
CallComputeBSA ==
  /\ call.fn = "computeBSA" /\ ~call.done
  /\ call' = [call EXCEPT !.done = TRUE,
                          !.out = computeBSA(call.h, call.w, call.method, call.variant)]
  /\ PagesUnchanged

NextBsa ==
  \/ CallComputeBSA

(* computeLBM({ sex, h, w, formula }) in 1e-6 kg, h and w in tenths         *)
\* formula === 'Boer': 0.407 w + 0.267 h - 19.2, else 0.252 w + 0.473 h - 48.3
BoerLBM(sex, h10, w10) ==
  IF sex = "male" THEN 40700 * w10 + 26700 * h10 - 19200000
  ELSE 25200 * w10 + 47300 * h10 - 48300000

\* any other formula: 0.32810 w + 0.33929 h - 29.5336, else
\* 0.29569 w + 0.41813 h - 43.2933
JamesLBM(sex, h10, w10) ==
  IF sex = "male" THEN 32810 * w10 + 33929 * h10 - 29533600
  ELSE 29569 * w10 + 41813 * h10 - 43293300

computeLBM(sex, h, w, formula) ==
  IF Falsy(h) \/ Falsy(w) THEN 0
  ELSE IF formula = "Boer" THEN BoerLBM(sex, h.v, w.v)
  ELSE JamesLBM(sex, h.v, w.v)

LbmFormulas == {"Boer", "James", "Hume", ""}
LbmCalls ==
  {[fn |-> "computeLBM", done |-> FALSE, sex |-> sex, h |-> h, w |-> w,
    formula |-> f, out |-> 0] :
     sex \in Sexes, h \in BsaHeights, w \in BsaWeights, f \in LbmFormulas}

\* computeLBM({ sex, h, w, formula }) is called and returns
CallComputeLBM ==
  /\ call.fn = "computeLBM" /\ ~call.done
  /\ call' = [call EXCEPT !.done = TRUE,
                          !.out = computeLBM(call.sex, call.h, call.w, call.formula)]
  /\ PagesUnchanged

NextLbm ==
  \/ CallComputeLBM

(* calcDO2i and calcRequiredFlowLmin, alone and one after the other        *)
FlowArgs == {-50, 0, 1, 42, 50}
BsaArgs == {-200, 0, 1, 173, 200}
CaO2Args == {-1500000, 0, 1, 1500000, 1830000}
TargetArgs == {FracInt(t) : t \in {-280, 0, 1, 280, 375}}

FlowCalls ==
  {[fn |-> "flow", stage |-> "args", flow |-> f, bsa |-> b, cao2 |-> c,
    target |-> t, do2i |-> FracInt(0), req |-> FracInt(0)] :
     f \in FlowArgs, b \in BsaArgs, c \in CaO2Args, t \in TargetArgs}

\* calcDO2i(flow, bsa, cao2) is called and returns
CallCalcDO2i ==
  /\ call.fn = "flow" /\ call.stage = "args"
  /\ call' = [call EXCEPT !.stage = "do2i",
                          !.do2i = calcDO2i(call.flow, call.bsa, call.cao2)]
  /\ PagesUnchanged

\* calcRequiredFlowLmin(target, bsa, cao2) is called and returns
CallCalcRequiredFlowLmin ==
  /\ call.fn = "flow" /\ call.stage = "args"
  /\ call' = [call EXCEPT !.stage = "req",
                          !.req = calcRequiredFlowLmin(call.target, call.bsa, call.cao2)]
  /\ PagesUnchanged

\* calcRequiredFlowLmin is called on the value calcDO2i returned
CallRequiredOfDO2i ==
  /\ call.fn = "flow" /\ call.stage = "do2i"
  /\ call' = [call EXCEPT !.stage = "back",
                          !.req = calcRequiredFlowLmin(call.do2i, call.bsa, call.cao2)]
  /\ PagesUnchanged

NextFlow ==
  \/ CallCalcDO2i
  \/ CallCalcRequiredFlowLmin
  \/ CallRequiredOfDO2i

(* computePredictedHct: weight in tenths of a kg, volumes in mL, pre and    *)
(* rbcHct in percent; ebv and totalVol are returned in tenths of a mL and   *)
(* hct as an exact fraction.                                                *)
PATIENT_TYPE_COEFS ==
  [adult_m |-> 70, adult_f |-> 65, child |-> 75, infant |-> 80, neonate |-> 90]

\* ebvCoef(pttype) = PATIENT_TYPE_COEFS[pttype] || 70
ebvCoef(pttype) ==
  IF pttype \in DOMAIN PATIENT_TYPE_COEFS THEN PATIENT_TYPE_COEFS[pttype] ELSE 70

\* a destructured property with a default: the default when it is omitted
OrDefault(x, dflt) == IF x.nan THEN dflt ELSE x.v

HctResult(ebv, totalVol, hct) == [ebv |-> ebv, totalVol |-> totalVol, hct |-> hct]

\* computePredictedHct taking the patient-type coefficient whatever
\* ebvCoefValue is
computePredictedHctNoOverride(a) ==
  LET coef == ebvCoef(a.pttype)
      ebv == a.weight * coef
      rbcVolAdded == a.rbcUnits * OrDefault(a.rbcUnitVol, 300)
      rbcVolume == ebv * a.pre + 10 * rbcVolAdded * OrDefault(a.rbcHct, 60)
      totalVol == ebv + 10 * (a.prime + a.fluids + rbcVolAdded - a.removed)
  IN HctResult(ebv, totalVol,
               IF totalVol > 0 THEN Frac(rbcVolume, totalVol) ELSE FracInt(0))

\* computePredictedHct({ pttype, weight, pre, prime, fluids, removed,
\*                       rbcUnits, rbcUnitVol, rbcHct, ebvCoefValue })
computePredictedHct(a) ==
  LET coef == IF Falsy(a.ebvCoefValue) THEN ebvCoef(a.pttype) ELSE a.ebvCoefValue.v
      ebv == a.weight * coef
      rbcVolAdded == a.rbcUnits * OrDefault(a.rbcUnitVol, 300)
      rbcVolume == ebv * a.pre + 10 * rbcVolAdded * OrDefault(a.rbcHct, 60)
      totalVol == ebv + 10 * (a.prime + a.fluids + rbcVolAdded - a.removed)
  IN HctResult(ebv, totalVol,
               IF totalVol > 0 THEN Frac(rbcVolume, totalVol) ELSE FracInt(0))

HctPatientTypes == {"adult_m", "adult_f", "child", "infant", "neonate", "other"}
HctArgs ==
  [pttype : HctPatientTypes, weight : {0, 35, 700}, pre : {30, 45},
   prime : {0, 1500}, fluids : {0, 500}, removed : {0, 500, 10000},
   rbcUnits : {0, 2}, rbcUnitVol : {Missing, Num(250)},
   rbcHct : {Missing, Num(70)}, ebvCoefValue : {Missing, Num(0), Num(60)}]

HctCalls ==
  {[fn |-> "computePredictedHct", done |-> FALSE, args |-> a,
    out |-> HctResult(0, 0, FracInt(0))] : a \in HctArgs}

\* computePredictedHct(payload) is called and returns
CallComputePredictedHct ==
  /\ call.fn = "computePredictedHct" /\ ~call.done
  /\ call' = [call EXCEPT !.done = TRUE, !.out = computePredictedHct(call.args)]
  /\ PagesUnchanged

NextHct ==
  \/ CallComputePredictedHct

(* computeHeparinPlan of src/main.js called directly, hepResistance false    *)
PlanHeights == {0, 1500, 1700, 2000}
PlanWeights == {0, 700, 1600} \cup Around({1000, 1333})
PlanStrategies == WeightStrategies \cup {""}

PlanCalls ==
  {[fn |-> "computeHeparinPlan", done |-> FALSE, heightCm |-> h, weightKg |-> w,
    sex |-> sex, doseUnit |-> d, weightStrategy |-> st, out |-> NoPlan] :
     h \in PlanHeights, w \in PlanWeights, sex \in Sexes, d \in DoseUnits,
     st \in PlanStrategies}

\* computeHeparinPlan({ heightCm, weightKg, sex, doseUnit, weightStrategy })
\* is called and returns
CallComputeHeparinPlan ==
  /\ call.fn = "computeHeparinPlan" /\ ~call.done
  /\ call' = [call EXCEPT !.done = TRUE,
                          !.out = computeHeparinPlan(call.heightCm, call.weightKg,
                                                     call.sex, call.doseUnit,
                                                     call.weightStrategy, FALSE)]
  /\ PagesUnchanged

NextPlan ==
  \/ CallComputeHeparinPlan

\* every calculator as its page leaves it after DOMContentLoaded; the DO2i
\* and time calculators run the code of one of their two snapshots
Loaded ==
  /\ hep = HepInit
  /\ gdp = GdpInit
  /\ trow \in TimeInit
  /\ do2 \in Do2Init
  /\ tq = TqInit
  /\ priming \in PrimingInit

Init == Loaded /\ call = NoCall

\* one calculator is exercised at a time; a calculator that is left idle is
\* taken in its src/main.js or latest snapshot
IdleTime == trow.snapshot = "main"
IdleDo2 == do2.snapshot = "dampened"
IdlePriming == priming.id = "1/2" /\ priming.unit = "cm"

InitHep == Init /\ IdleTime /\ IdleDo2 /\ IdlePriming
InitGdp == Init /\ IdleTime /\ IdleDo2 /\ IdlePriming
InitTq == Init /\ IdleTime /\ IdleDo2 /\ IdlePriming
InitDo2 == Init /\ IdleTime /\ IdlePriming
InitTime == Init /\ IdleDo2 /\ IdlePriming
InitParse == Loaded /\ IdleTime /\ IdleDo2 /\ IdlePriming /\ call \in ParseCalls
InitBsa == Loaded /\ IdleTime /\ IdleDo2 /\ IdlePriming /\ call \in BsaCalls
InitLbm == Loaded /\ IdleTime /\ IdleDo2 /\ IdlePriming /\ call \in LbmCalls
InitFlow == Loaded /\ IdleTime /\ IdleDo2 /\ IdlePriming /\ call \in FlowCalls
InitHct == Loaded /\ IdleTime /\ IdleDo2 /\ IdlePriming /\ call \in HctCalls
InitPlan == Loaded /\ IdleTime /\ IdleDo2 /\ IdlePriming /\ call \in PlanCalls
InitHepResistance ==
  /\ hep = HepInit_part005
  /\ gdp = GdpInit /\ trow \in TimeInit /\ do2 \in Do2Init /\ tq = TqInit
  /\ priming \in PrimingInit /\ IdlePriming
  /\ IdleTime /\ IdleDo2 /\ call = NoCall
InitPriming == Init /\ IdleTime /\ IdleDo2

SpecHep == InitHep /\ [][NextHep]_vars
SpecDo2 == InitDo2 /\ [][NextDo2]_vars
SpecTq == InitTq /\ [][NextTq]_vars
SpecTime == InitTime /\ [][NextTime]_vars
SpecGdp == InitGdp /\ [][NextGdp]_vars
SpecParse == InitParse /\ [][NextParse]_vars
SpecBsa == InitBsa /\ [][NextBsa]_vars
SpecLbm == InitLbm /\ [][NextLbm]_vars
SpecFlow == InitFlow /\ [][NextFlow]_vars
SpecHct == InitHct /\ [][NextHct]_vars
SpecPlan == InitPlan /\ [][NextPlan]_vars
SpecHepResistance == InitHepResistance /\ [][NextHepResistance]_vars
SpecPriming == InitPriming /\ [][NextPriming]_vars

(***************************************************************************)
(* Claims on the heparin calculator.                                       *)
(***************************************************************************)
HepShown == ~hep.resultsHidden /\ hep.plan.ok
HepH == hep.height.n
HepW == hep.weight.n
\* weightKg in 1e-4 kg
HepTbw == HepW * 1000
\* the Devine formula in 1e-4 kg: 50 (45.5) + 0.91 * (height - 152.4)
HepDevine ==
  (IF hep.sex = "male" THEN 500000 ELSE 455000) + 910 * HepH - 910 * 1524

C5_BoundsInclusive ==
  LET h == ParseFloat(hep.height)
      w == ParseFloat(hep.weight)
      hIn == ~h.nan /\ h.v >= 500 /\ h.v <= 2500
      wIn == ~w.nan /\ w.v >= 200 /\ w.v <= 3000
  IN /\ ~(hIn /\ wIn) => (hep.resultsHidden /\ ~hep.placeholderHidden)
     /\ (hIn /\ wIn) => (HepShown /\ hep.placeholderHidden)
     /\ ~hep.heightErrorHidden <=> (hep.height.kind # "empty" /\ ~hIn)
     /\ ~hep.weightErrorHidden <=> (hep.weight.kind # "empty" /\ ~wIn)

\* C6: a manual weightStrategy forces its weight: "tbw" gives TBW, "ibw" the
\* Devine IBW, "abw" gives IBW + 0.3 * (TBW - IBW) when BMI >= 40 and
\* IBW + 0.4 * (TBW - IBW) otherwise, IBW being the Devine IBW.
C6_ManualStrategyForcesWeight ==
  HepShown =>
    LET p == hep.plan
        superObese == HepW * 100000 >= 40 * HepH * HepH
    IN /\ hep.strategy = "tbw" => p.dosingWeight = HepTbw
       /\ hep.strategy = "ibw" => p.dosingWeight = HepDevine
       /\ (hep.strategy = "abw" /\ superObese) =>
            10 * p.dosingWeight = 10 * HepDevine + 3 * (HepTbw - HepDevine)
       /\ (hep.strategy = "abw" /\ ~superObese) =>
            10 * p.dosingWeight = 10 * HepDevine + 4 * (HepTbw - HepDevine)

(***************************************************************************)
(* DO2i classification                                                     *)
(***************************************************************************)
\* updateDO2i has computed a non-zero DO2i and classified it
Do2Classified ==
  /\ ~FracIsZero(do2.do2i)
  /\ (do2.snapshot = "q10" \/ do2.missing = <<>>)

Do2Rank(msg) ==
  CASE msg = "Low Delivery" -> 1
    [] msg = "Borderline" -> 2
    [] msg = "Target Range" -> 3
    [] msg = "High Delivery" -> 4
    [] OTHER -> 0

C7_StateAndGauge ==
  Do2Classified =>
    LET d == do2.do2i
        t == do2.targets
    IN /\ Do2Rank(do2.msg) \in 1..4
       /\ do2.msg = "Low Delivery" <=> FracLt(d, t.low)
       /\ do2.msg = "Borderline" <=>
            (FracLe(t.low, d) /\ FracLt(d, t.borderline))
       /\ do2.msg = "Target Range" <=>
            (FracLe(t.borderline, d) /\ FracLe(d, t.upper))
       /\ do2.msg = "High Delivery" <=> FracLt(t.upper, d)
       /\ IF FracLe(t.max, d) THEN do2.gaugePct = FracInt(100)
          ELSE /\ FracLt(do2.gaugePct, FracInt(100))
               /\ FracMul(do2.gaugePct, t.max) = FracMul(d, FracInt(100))

C7_NeverLowerWhenHigher ==
  (/\ Do2Classified
   /\ Do2Classified'
   /\ do2'.targets = do2.targets
   /\ FracLe(do2.do2i, do2'.do2i))
    => Do2Rank(do2'.msg) >= Do2Rank(do2.msg)

\* C7: for every computed DO2i > 0 updateDO2i shows exactly one of the four
\* states, "Low Delivery" iff DO2i < low, "Borderline" iff
\* low <= DO2i < borderline, "Target Range" iff borderline <= DO2i <= upper,
\* "High Delivery" iff DO2i > upper; under unchanged thresholds a larger DO2i
\* never gets a lower state; the gauge is clamp(DO2i / max * 100, 0, 100).
C7_FourStateClassification ==
  /\ []C7_StateAndGauge
  /\ [][C7_NeverLowerWhenHigher]_vars

\* C7 witness: a DO2i exactly on the upper threshold at 32 C in the dampened
\* snapshot (260), classified "Target Range", gauge at 260 / 520 = 50 %
C7_Witness ==
  /\ Do2Classified
  /\ do2.snapshot = "dampened"
  /\ do2.temp = NumField(320)
  /\ do2.do2i = do2.targets.upper
  /\ do2.msg = "Target Range"
  /\ do2.gaugePct = FracInt(50)

(***************************************************************************)
(* Temperature models                                                      *)
(***************************************************************************)
TqHasTemp == ~tq.temp.nan
TqThresholdNames == {"low", "borderline", "upper", "recMin", "recMax"}

\* C2: for every temperature in [20, 39] C the low threshold used for
\* classification is at least 200 mL/min/m2, both the low of
\* getTempAdjustedTargets and the lower target of updateGDP under a
\* TEMP_PROFILES band.
C2_LowAtLeast200 ==
  (TqHasTemp /\ tq.temp.v >= 200 /\ tq.temp.v <= 390) =>
    /\ FracLe(FracInt(200), tq.targets.low)
    /\ tq.band.profile # 0
    /\ FracLe(FracInt(200), tq.band.lowerTarget)

\* C2 witness: at 20 C both models sit exactly on the floor of 200
C2_Witness ==
  /\ TqHasTemp /\ tq.temp.v = 200
  /\ tq.targets.low = FracInt(200)
  /\ tq.band.profile = 4
  /\ tq.band.lowerTarget = FracInt(200)

\* C8 as stated: every threshold of getTempAdjustedTargets, low, borderline,
\* upper, max, recMin and recMax, is monotonic non-increasing as the
\* temperature drops: T1 <= T2 implies threshold(T1) <= threshold(T2).
C8_AllThresholdsMonotonic ==
  (TqHasTemp /\ ~tq.prevTemp.nan /\ tq.prevTemp.v <= tq.temp.v) =>
    \A k \in TqThresholdNames \cup {"max"} :
      FracLe(tq.prevTargets[k], tq.targets[k])

\* C8 amended: low, borderline, upper, recMin and recMax of
\* getTempAdjustedTargets are monotonic non-increasing as the temperature
\* drops (T1 <= T2 implies threshold(T1) <= threshold(T2)); max is not: it is
\* 500 at 37 C and above and 520 at 32 C and below, and never below 500.
C8_ThresholdsMonotonicExceptMax ==
  /\ (TqHasTemp /\ ~tq.prevTemp.nan /\ tq.prevTemp.v <= tq.temp.v) =>
       /\ \A k \in TqThresholdNames : FracLe(tq.prevTargets[k], tq.targets[k])
       /\ FracLe(tq.targets.max, tq.prevTargets.max)
  /\ TqHasTemp =>
       /\ (tq.temp.v >= 370 => tq.targets.max = FracInt(500))
       /\ (tq.temp.v <= 320 => tq.targets.max = FracInt(520))

\* C8 witness: a reading of 35 C after one of 30 C: every threshold except
\* max is strictly lower at the colder reading, max is higher
C8_Witness ==
  /\ TqHasTemp /\ ~tq.prevTemp.nan
  /\ tq.prevTemp.v = 300 /\ tq.temp.v = 350
  /\ \A k \in TqThresholdNames :
       FracLt(tq.prevTargets[k], tq.targets[k])
  /\ FracLt(tq.targets.max, tq.prevTargets.max)

\* the bands of TEMP_PROFILES that contain a temperature
TqBandsOf(t10) ==
  {i \in 1..Len(TEMP_PROFILES) :
     TEMP_PROFILES[i].min <= t10 /\ t10 < TEMP_PROFILES[i].max}

\* C9: the TEMP_PROFILES bands partition [20, 40) C contiguously: each
\* band's lower bound is the next listed band's upper bound, and every
\* temperature T with 20 <= T < 40 is in exactly one band, which is the band
\* getTempProfile returns.
C9_BandsPartition ==
  /\ \A i \in 1..(Len(TEMP_PROFILES) - 1) :
       TEMP_PROFILES[i].min = TEMP_PROFILES[i + 1].max
  /\ TEMP_PROFILES[1].max = 400
  /\ TEMP_PROFILES[Len(TEMP_PROFILES)].min = 200
  /\ (TqHasTemp /\ tq.temp.v >= 200 /\ tq.temp.v < 400) =>
       /\ Cardinality(TqBandsOf(tq.temp.v)) = 1
       /\ tq.band.profile \in TqBandsOf(tq.temp.v)

\* C9 witness: 36.0 C, the edge between two bands, is in the band [36, 40)
C9_Witness ==
  /\ TqHasTemp /\ tq.temp.v = 360
  /\ tq.band.profile = 1
  /\ TqBandsOf(360) = {1}

\* C10: a numeric temperature outside [20, 40) C gets the nearest band:
\* below 20 the deep-hypothermia band [20, 28), at 40 or more the
\* normothermic band [36, 40).
C10_ClampToNearestBand ==
  TqHasTemp =>
    /\ (tq.temp.v < 200 => tq.band.profile = 4)
    /\ (tq.temp.v >= 400 => tq.band.profile = 1)

(***************************************************************************)
(* Time calculator                                                         *)
(***************************************************************************)
\* the last updateTimeRow call found both fields parseable
TimeBothParsed == ~trow.startMin.null /\ ~trow.endMin.null

\* C3: for every pair of parseable start and end times updateTimeRow displays
\* the duration (end - start) mod 1440 minutes, which is in 0..1439: an end
\* before the start crosses midnight, equal times give 0.
C3_DurationMod1440 ==
  TimeBothParsed =>
    /\ trow.result.kind = "duration"
    /\ trow.result.mins = (trow.endMin.v - trow.startMin.v) % 1440
    /\ trow.result.mins \in 0..1439
    /\ trow.result.h * 60 + trow.result.mm = trow.result.mins

\* C3 witness: 23:50 to 00:10 under the part_005 updateTimeRow displays 20
C3_Witness ==
  /\ TimeBothParsed
  /\ trow.snapshot = "part_005"
  /\ trow.startMin.v = 23 * 60 + 50 /\ trow.endMin.v = 10
  /\ trow.result = [kind |-> "duration", mins |-> 20, h |-> 0, mm |-> 20]

(***************************************************************************)
(* GDP calculator                                                          *)
(***************************************************************************)
\* the required fields that are missing, in the order the warning lists them
GdpMissing ==
  SelectSeq2(<<"BSA", "Hemoglobin", "SaO2", "PaO2", "Target DO2i">>,
             [x \in {"BSA", "Hemoglobin", "SaO2", "PaO2", "Target DO2i"} |->
                CASE x = "BSA" -> gdp.bsa.kind = "empty"
                  [] x = "Hemoglobin" -> gdp.hb.kind = "empty"
                  [] x = "SaO2" -> gdp.sao2.kind = "empty"
                  [] x = "PaO2" -> gdp.pao2.kind = "empty"
                  [] x = "Target DO2i" -> gdp.targetDO2i = 0])

\* C4: whenever a required field (BSA, hemoglobin, SaO2, PaO2, target DO2i)
\* is missing, updateGDP produces no derived value (CaO2, required flow,
\* current DO2i) and the warning names exactly the missing fields.
C4_NoDerivedValueWhenMissing ==
  GdpMissing # <<>> =>
    /\ gdp.cao2 = 0
    /\ gdp.requiredFlow.dash
    /\ gdp.currentDO2i.dash
    /\ ~gdp.warningHidden
    /\ gdp.warning = GdpMissing

\* C11: getTempProfile returns the first band, in listed order, whose
\* interval contains the temperature; for a numeric temperature outside all
\* bands it returns the first (normothermic) band; for a missing temperature
\* it returns null.
C11_FirstMatchElseFirstBand ==
  /\ tq.temp.nan => tq.band.profile = 0
  /\ TqHasTemp =>
       LET hit == TqBandsOf(tq.temp.v)
       IN IF hit = {} THEN tq.band.profile = 1
          ELSE /\ tq.band.profile \in hit
               /\ \A j \in hit : tq.band.profile <= j

\* C11 witness: 19.0 C is in no band and gets the normothermic band
C11_Witness ==
  /\ TqHasTemp /\ tq.temp.v = 190
  /\ TqBandsOf(tq.temp.v) = {}
  /\ tq.band.profile = 1
  /\ TEMP_PROFILES[tq.band.profile].label = "37C (Normothermia)"

(***************************************************************************)
(* Pure functions                                                          *)
(***************************************************************************)
\* C12: parseTimeToMinutes accepts only a 4-digit HHMM text or a colon form
\* H:MM / HH:MM (blanks around it aside), returns h * 60 + m for them when
\* h <= 23 and m <= 59, and returns null for every other input; every
\* non-null result is in 0..1439.
C12_OnlyHHMMOrColonForm ==
  (call.fn = "parseTimeToMinutes" /\ call.done) =>
    LET str == Trim(call.str)
        n == Len(str)
        IsHHMM == n = 4 /\ \A i \in 1..4 : IsDigit(str[i])
        IsColonForm == /\ n \in {4, 5}
                       /\ str[n - 2] = ":"
                       /\ \A i \in 1..n : i # n - 2 => IsDigit(str[i])
        h == IF IsHHMM THEN NumberOf(SubSeq(str, 1, 2))
             ELSE NumberOf(SubSeq(str, 1, n - 3))
        m == NumberOf(SubSeq(str, n - 1, n))
        ok == (IsHHMM \/ IsColonForm) /\ h <= 23 /\ m <= 59
    IN /\ ok => call.out = Minutes(h * 60 + m)
       /\ ~ok => call.out.null
       /\ ~call.out.null => call.out.v \in 0..1439

BsaReturned == call.fn = "computeBSA" /\ call.done
BsaBothPositive == ~call.h.nan /\ call.h.v > 0 /\ ~call.w.nan /\ call.w.v > 0

\* C13: in every variant of computeBSA a method name that is not a key of
\* the BSA table falls back to Mosteller: the call does not raise, returns
\* what the Mosteller method returns, and leaves the pages as they were.
C13_UnknownMethodIsMosteller ==
  (BsaReturned /\ call.method \notin BsaKeys(call.variant)) =>
    /\ ~call.out.raised
    /\ call.out = computeBSA(call.h, call.w, "Mosteller", call.variant)
    /\ hep = HepInit /\ gdp = GdpInit /\ tq = TqInit

\* C14: computeBSA of src/main.js returns 0 whenever height or weight is
\* missing or <= 0, for every method, and a positive number whenever both
\* are > 0; computeBSA(180, 80, 'Mosteller') is 2, the square root of 4.
C14_ZeroOrPositive ==
  (BsaReturned /\ call.variant = "main") =>
    /\ ~call.out.raised
    /\ ~BsaBothPositive => call.out = BsaReturnZero
    /\ BsaBothPositive => call.out.sign = "pos"
    /\ (call.h = Num(1800) /\ call.w = Num(800) /\ call.method = "Mosteller")
         => call.out.sq = FracInt(4)

C14_Witness ==
  /\ BsaReturned /\ call.variant = "main"
  /\ call.h = Num(1800) /\ call.w = Num(800) /\ call.method = "Mosteller"
  /\ call.out = BsaNumber("Mosteller", "pos", FracInt(4))

\* C15: computeLBM returns 0 whenever height <= 0 or weight <= 0 (or one of
\* them is missing), for both sexes and both formulas; otherwise it returns
\* the Boer regression when formula is 'Boer' and the James regression for
\* any other formula value.
C15_ZeroOrRegression ==
  (call.fn = "computeLBM" /\ call.done) =>
    IF call.h.nan \/ call.h.v <= 0 \/ call.w.nan \/ call.w.v <= 0
    THEN call.out = 0
    ELSE IF call.formula = "Boer"
    THEN call.out = BoerLBM(call.sex, call.h.v, call.w.v)
    ELSE call.out = JamesLBM(call.sex, call.h.v, call.w.v)

\* C16: calcDO2i returns 0 when BSA is 0, calcRequiredFlowLmin returns 0
\* when the target, BSA or CaO2 is 0, and for all numeric inputs neither
\* returns Infinity or NaN.
C16_GuardedDenominators ==
  call.fn = "flow" =>
    /\ call.stage = "do2i" =>
         /\ call.bsa = 0 => call.do2i = FracInt(0)
         /\ IsFinite(call.do2i)
    /\ call.stage = "req" =>
         /\ (FracIsZero(call.target) \/ call.bsa = 0 \/ call.cao2 = 0)
              => call.req = FracInt(0)
         /\ IsFinite(call.req)
    /\ call.stage = "back" => IsFinite(call.req)

C16_Witness ==
  /\ call.fn = "flow" /\ call.stage = "do2i"
  /\ call.bsa = 0 /\ call.flow = 50 /\ call.cao2 = 1500000
  /\ call.do2i = FracInt(0)

C18_PredictedHct ==
  (call.fn = "computePredictedHct" /\ call.done) =>
    LET a == call.args
        given == ~a.ebvCoefValue.nan /\ a.ebvCoefValue.v # 0
        listed == [adult_m |-> 70, adult_f |-> 65, child |-> 75,
                   infant |-> 80, neonate |-> 90]
        unitVol == IF a.rbcUnitVol.nan THEN 300 ELSE a.rbcUnitVol.v
        unitHct == IF a.rbcHct.nan THEN 60 ELSE a.rbcHct.v
        ebv == call.out.ebv
        total == ebv + 10 * (a.prime + a.fluids + a.rbcUnits * unitVol - a.removed)
        rbc == ebv * a.pre + 10 * a.rbcUnits * unitVol * unitHct
    IN /\ given => ebv = a.weight * a.ebvCoefValue.v
       /\ (~given /\ a.pttype \in DOMAIN listed) => ebv = a.weight * listed[a.pttype]
       /\ call.out.totalVol = total
       /\ total > 0 => call.out.hct = Frac(rbc, total)
       /\ total <= 0 => call.out.hct = FracInt(0)
       /\ (a.pttype = "adult_m" /\ a.weight = 700 /\ a.pre = 30 /\ a.prime = 1500
             /\ a.fluids = 0 /\ a.removed = 0 /\ a.rbcUnits = 0 /\ ~given)
            => /\ call.out.totalVol = 64000
               /\ call.out.hct = Frac(147000, 6400)

C18_Witness ==
  /\ call.fn = "computePredictedHct" /\ call.done
  /\ call.args.pttype = "adult_m" /\ call.args.weight = 700
  /\ call.args.pre = 30 /\ call.args.prime = 1500
  /\ call.args.fluids = 0 /\ call.args.removed = 0 /\ call.args.rbcUnits = 0
  /\ call.args.ebvCoefValue = Missing
  /\ call.out.ebv = 49000 /\ call.out.totalVol = 64000
  /\ call.out.hct = Frac(147000, 6400)

\* C19: the displayed heparin plan follows the resistance flag: with the
\* flag switched on its maintenance rate is round(dosingWeight * 18) and its
\* rescue bolus round(dosingWeight * 100); with the flag off they are
\* round(dosingWeight * 12) and round(dosingWeight * 50).
C19_PlanFollowsResistanceFlag ==
  ~hep.resultsHidden =>
    LET dw == hep.plan.dosingWeight
    IN IF hep.resistance
       THEN /\ hep.plan.maintenanceRate = RoundDiv(dw * 18, 10000)
            /\ hep.plan.additionalBolus = RoundDiv(dw * 100, 10000)
       ELSE /\ hep.plan.maintenanceRate = RoundDiv(dw * 12, 10000)
            /\ hep.plan.additionalBolus = RoundDiv(dw * 50, 10000)

C19_Witness ==
  /\ ~hep.resultsHidden /\ hep.resistance
  /\ hep.height = NumField(1500) /\ hep.weight = NumField(675)
  /\ hep.strategy = "tbw"
  /\ hep.plan.dosingWeight = 675000
  /\ hep.plan.maintenanceRate = 1215
  /\ hep.plan.additionalBolus = 6750

\* C20: computeHeparinPlan returns initialBolus = round(dosingWeight *
\* doseUnit), and isHighDose is true exactly when initialBolus > 40000: a
\* bolus of exactly 40000 U is not flagged.
C20_InitialBolusAndHighDose ==
  (call.fn = "computeHeparinPlan" /\ call.done /\ call.out.ok) =>
    LET p == call.out
    IN /\ p.initialBolus = RoundDiv(p.dosingWeight * call.doseUnit, 10000)
       /\ p.isHighDose <=> p.initialBolus > 40000
       /\ p.initialBolus = 40000 => ~p.isHighDose

C20_Witness ==
  /\ call.fn = "computeHeparinPlan" /\ call.done /\ call.out.ok
  /\ call.weightKg = 1000 /\ call.doseUnit = 400 /\ call.weightStrategy = "tbw"
  /\ call.out.dosingWeight = 1000000
  /\ call.out.initialBolus = 40000
  /\ ~call.out.isHighDose

\* C21: the resistance-risk score is advisory only: for every combination of
\* the five checkboxes the displayed level is Low for 0-1 checked, Moderate
\* for 2-3 and High for 4-5, and the dosing weight, initial bolus,
\* maintenance rate and rescue bolus of the displayed plan are those
\* displayed with no checkbox checked.
C21_RiskScoreAdvisoryOnly ==
  ~hep.resultsHidden =>
    LET n == Cardinality(hep.risk)
        none == updateHeparinUI_part005([hep EXCEPT !.risk = {}])
    IN /\ hep.riskChip.count = n
       /\ n \in {0, 1} => hep.riskChip.level = "Low"
       /\ n \in {2, 3} => hep.riskChip.level = "Moderate"
       /\ n \in {4, 5} => hep.riskChip.level = "High"
       /\ ~none.resultsHidden
       /\ hep.plan.dosingWeight = none.plan.dosingWeight
       /\ hep.plan.initialBolus = none.plan.initialBolus
       /\ hep.plan.maintenanceRate = none.plan.maintenanceRate
       /\ hep.plan.additionalBolus = none.plan.additionalBolus

C21_Witness ==
  /\ ~hep.resultsHidden
  /\ hep.risk = {"sirs", "ecmo", "at3"}
  /\ hep.riskChip = [level |-> "Moderate", count |-> 3]
  /\ hep.height = NumField(1700) /\ hep.weight = NumField(1000)
  /\ hep.strategy = "auto" /\ hep.doseUnit = 300 /\ ~hep.resistance
  /\ hep.plan.dosingWeight = 796096 /\ hep.plan.initialBolus = 23883

(***************************************************************************)
(* Claims on the priming volume calculator.                                *)
(***************************************************************************)
\* C22: in updatePrimingVolume a negative or non-numeric length shows the
\* validation error and no volume (volume and length in metres are the
\* dash); an empty length shows no error and no volume; a valid length >= 0
\* is converted to metres (cm / 100, m, ft * 0.3048, in * 0.0254) and, with a
\* tube selected, the volume is (pi / 4) * ID_mm^2 * length_m.
C22_PrimingLengthValidation ==
  LET f == priming.length
      l == Frac(IF f.kind = "num" /\ f.n >= 0 THEN f.n ELSE 0, 10)
      metres == IF priming.unit = "cm" THEN FracMul(l, Frac(1, 100))
                ELSE IF priming.unit = "m" THEN l
                ELSE IF priming.unit = "ft" THEN FracMul(l, Frac(3048, 10000))
                ELSE FracMul(l, Frac(254, 10000))
      id == FindTube(priming.id).idMm
  IN /\ (f.kind = "text" \/ (f.kind = "num" /\ f.n < 0)) =>
          ~priming.errorHidden /\ priming.lengthM.dash /\ priming.volume.dash
     /\ f.kind = "empty" =>
          priming.errorHidden /\ priming.lengthM.dash /\ priming.volume.dash
     /\ (f.kind = "num" /\ f.n >= 0 /\ priming.unit \in {"cm", "m", "ft", "in"}) =>
          /\ priming.errorHidden
          /\ priming.lengthM = ValueText(metres)
          /\ FindTube(priming.id).found =>
               priming.volume =
                 ValueText(FracMul(FracMul(FracMul(id, id), metres), Frac(1, 4)))

C22_Witness ==
  /\ priming.id = "3/8" /\ priming.unit = "ft" /\ priming.length = NumField(15)
  /\ priming.errorHidden
  /\ priming.lengthM = ValueText(Frac(4572, 10000))
  /\ ~priming.volume.dash

(***************************************************************************)
(* Further claims on the heparin calculator.                               *)
(***************************************************************************)
\* C23: for every height and weight that pass updateHeparinUI's validation
\* (50 < height < 250 cm, 20 < weight < 300 kg), either sex, every weight
\* strategy and dose unit, the plan computeHeparinPlan returns has
\* dosingWeight > 0, initialBolus >= 0 and additionalBolus >= 0.
C23_PositiveDosingWeight ==
  HepShown =>
    /\ hep.plan.dosingWeight > 0
    /\ hep.plan.initialBolus >= 0
    /\ hep.plan.additionalBolus >= 0

(***************************************************************************)
(* Further claims on the time calculator.                                  *)
(***************************************************************************)
\* C24: updateTimeRow is stable under re-evaluation: once the row displays a
\* duration, the blur that follows with no edit in between displays the same
\* duration and sets no error on either field, also when the end field was
\* rewritten forward by 24 h.
C24_StableUnderReevaluation ==
  [][(TimeBlur /\ trow.result.kind = "duration") =>
       /\ trow'.result = trow.result
       /\ ~trow'.startError /\ ~trow'.endError]_vars


\* C25: while bsaManualOverride is set, a step that leaves flow, hemoglobin,
\* SaO2 or PaO2 as the last edited field leaves the BSA field and the
\* override as they are; a step that leaves height, weight or the BSA method
\* as the last edited field leaves the override cleared and the BSA field
\* equal to computeBSA(height, weight, method); a step that leaves no last
\* edited field (reset) leaves the override cleared.
C25_ManualBsaOverride ==
  [][/\ (gdp.bsaManualOverride
           /\ gdp'.lastChangedId \in {"flow", "hb", "sao2", "pao2"}) =>
          (gdp'.bsa = gdp.bsa /\ gdp'.bsaManualOverride)
     /\ gdp'.lastChangedId \in GdpAutoFields =>
          /\ ~gdp'.bsaManualOverride
          /\ gdp'.bsa = BsaFieldForMethod(OrZero(ParseFloat(gdp'.h)),
                                          OrZero(ParseFloat(gdp'.w)), gdp'.method)
     /\ gdp'.lastChangedId = "null" => ~gdp'.bsaManualOverride]_vars

\* a manual BSA of 2.00 kept through a flow input although height and weight
\* give 1.30
C25_Witness ==
  /\ gdp.bsaManualOverride /\ gdp.bsa = NumField(200)
  /\ gdp.lastChangedId = "flow"
  /\ gdp.h = NumField(1560) /\ gdp.w = NumField(390)


\* toFixed(2) of a non-negative fraction, in hundredths
GdpFixed2(f) == RoundDiv(f.n * 100, f.d)

\* C26: whenever the GDP calculator displays a required flow, it is (to the
\* two displayed decimals) targetDO2i * BSA / (CaO2 * 10) for the selected
\* target, preset or custom.
C26_RequiredFlowAtSelectedTarget ==
  ~gdp.requiredFlow.dash =>
    LET results == computeGdpResults(gdp)
    IN GdpFixed2(gdp.requiredFlow.v) =
         GdpFixed2(calcRequiredFlowLmin(FracInt(gdp.targetDO2i),
                                        results.bsa, results.cao2))


\* C27: in adult mode of the dampened-anchor updateDO2i, with or without a
\* temperature, a non-zero DO2i inside [recMin, recMax] of
\* getTempAdjustedTargets is classified "Target Range".
C27_RecommendedBandIsTargetRange ==
  (/\ do2.snapshot = "dampened" /\ do2.mode = "adult"
   /\ do2.missing = <<>> /\ ~FracIsZero(do2.do2i)
   /\ FracLe(do2.targets.recMin, do2.do2i)
   /\ FracLe(do2.do2i, do2.targets.recMax)) =>
     do2.msg = "Target Range"


\* C28: whenever updateGDP suppresses the results (status "Awaiting data",
\* required flow and current DO2i shown as the dash), the warning is shown
\* and names at least one missing field.
C28_SuppressedResultsNameAField ==
  (gdp.statusText = "Awaiting data" /\ gdp.requiredFlow.dash
     /\ gdp.currentDO2i.dash) =>
    (~gdp.warningHidden /\ gdp.warning # <<>>)


\* C29: for non-negative arguments with pre <= 100 and rbcHct <= 100, the hct
\* returned by computePredictedHct lies in [0, 100].
C29_PredictedHctWithin0To100 ==
  (/\ call.fn = "computePredictedHct" /\ call.done
   /\ call.args.weight >= 0 /\ call.args.pre >= 0 /\ call.args.pre <= 100
   /\ call.args.prime >= 0 /\ call.args.fluids >= 0 /\ call.args.removed >= 0
   /\ call.args.rbcUnits >= 0
   /\ (call.args.rbcUnitVol.nan \/ call.args.rbcUnitVol.v >= 0)
   /\ (call.args.rbcHct.nan
         \/ (call.args.rbcHct.v >= 0 /\ call.args.rbcHct.v <= 100))) =>
    /\ FracLe(FracInt(0), call.out.hct)
    /\ FracLe(call.out.hct, FracInt(100))


\* C30: in every state reached by page load, navigations to the heparin
\* route and events on the controls, one listener is bound on each heparin
\* control; a click on a dose button sets hepDoseUnit and makes exactly one
\* updateHeparinUI call; a further initHeparinManagement call binds nothing
\* and leaves the page as one updateHeparinUI call leaves it.
C30_ListenersBoundOnce ==
  /\ hep.initialized /\ hep.listeners = 1
  /\ \A d \in DoseUnits :
       LET clicked == HepDispatch([hep EXCEPT !.doseUnit = d])
       IN clicked.doseUnit = d /\ clicked.uiUpdates = 1
  /\ initHeparinManagement(hep) = [updateHeparinUI(hep) EXCEPT !.uiUpdates = 1]

\* a dose click after a navigation: 400 U/kg selected by one listener run
C30_Witness ==
  /\ hep.initialized /\ hep.listeners = 1 /\ hep.uiUpdates = 1
  /\ hep.doseUnit = 400 /\ ~hep.resultsHidden

=============================================================================
